---- MODULE Spec2Model ----
(***************************************************************************)
(* A model of the PIN lifecycle engine of guest-lock-manager: the store    *)
(* (guest PINs, static PINs and their per-lock assignments), the calendar  *)
(* sync pipeline, the periodic status loops and the batching lock writer   *)
(* (lock.Manager) with its primary/fallback transports.                    *)
(***************************************************************************)
EXTENDS Integers, Sequences, FiniteSets, TLC

(***************************************************************************)
(* Bounds of the model.                                                    *)
(***************************************************************************)
\* operations that may be queued into the lock writer in one behaviour
MaxOps == 2
\* calls of Manager.FlushNow in one behaviour
MaxFlushNow == 1
\* the last instant of the clock; instants 3d, 3d+1, 3d+2 are 00:00, 11:00
\* (check-out time) and 15:00 (check-in time) of day d
MaxNow == 8
\* the last minute of the cron's clock, counted from Scheduler.Start
MaxMinute == 20

(***************************************************************************)
(* The fixed part of the store: the managed locks and the PINs' codes.     *)
(***************************************************************************)
Locks == {"L1", "L2"}

\* managed_locks.direct_integration: L1 is configured for direct Z-Wave JS UI
DirectIntegration(l) == IF l = "L1" THEN "zwave_js_ui" ELSE ""

\* the timers time.AfterFunc can create: one per queued operation at most
Timers == 1..MaxOps
\* the calls of FlushNow
Flushers == (MaxOps + 1)..(MaxOps + MaxFlushNow)
\* every invocation of flushBatch: a timer's callback or a FlushNow call
Drains == Timers \cup Flushers

NoLock == "none"

\* event uids of the feed; a guest PIN is identified by its event's uid
Events == {"e1", "e2"}
\* ids of static PINs
StaticIds == {"s1", "s2"}
\* calendar_lock_mappings of the one calendar, in the order GetLockIDs
\* returns them
CalendarLocks == <<"L1">>
\* the order in which queries return rows
EventOrder == <<"e1", "e2">>
LockOrder == <<"L1", "L2">>
StaticOrder == <<"s1", "s2">>
\* the stays (first day, last day) an event of the feed may have
Stays == {<<0, 1>>, <<0, 2>>}
NoStay == <<>>
\* managed_locks.total_slots, the schema's default
TotalSlots == 10

VARIABLES
    \* ---- store ----
    guestPins,    \* guest_pins: event uid -> row or NoPin
    staticPins,   \* static_pins: id -> row or NoStatic
    gpl,          \* guest_pin_locks: [pin, lock] -> row or NoRow
    spl,          \* static_pin_locks: [pin, lock] -> row or NoRow
    locks,        \* ids of the rows of managed_locks
    \* ---- pin.StaticPINScheduler ----
    pinStates,    \* StaticPINScheduler.pinStates: static PIN id -> is on the locks
    \* ---- lock.Manager ----
    pendingOps,   \* Manager.pendingOps: lock -> sequence of PINOperation
    batchTimer,   \* Manager.batchTimer: 0 (nil) or the timer it points to
    dpc,          \* per timer / FlushNow call: where it is
    dops,         \* per flushBatch invocation: the batch it took (local ops)
    dcur,         \* per flushBatch invocation: the lock its loop is at
    dnodes,       \* per flushBatch invocation: locks whose node_id is in stateMap
    \* ---- the outside world and the history ----
    lockSlots,    \* per lock and slot: the code programmed on the device
    wire,         \* per lock: every call made to a transport for it, in order
    enq,          \* every PINOperation ever queued, in order
    now,          \* the clock
    feed,         \* the calendar feed: event uid -> its stay or NoStay
    \* ---- the calendar subscription and the last sync ----
    calendar,     \* calendar_subscriptions: enabled, sync_interval_min, sync_status,
                  \* sync_error, last_sync_at
    result,       \* what the last SyncCalendar fetched and returned
    cron,         \* calendar.Scheduler: the cron's clock and its entries
    \* ---- requests that run side by side ----
    tables,       \* the rows they insert, by generated id
    requests,     \* per request: the handler it runs, where it is, its locals
    \* ---- a function applied on its own ----
    args,         \* the arguments a function is applied to
    ret           \* what it returned, or NoRet

writerVars == <<pendingOps, batchTimer, dpc, dops, dcur, dnodes>>
storeVars == <<guestPins, staticPins, gpl, spl, locks>>
worldVars == <<lockSlots, wire, enq>>
envVars == <<now, feed>>
calVars == <<calendar, result, cron>>
pureVars == <<args, ret>>
reqVars == <<tables, requests>>
vars == <<pinStates, guestPins, staticPins, gpl, spl, locks, pendingOps, batchTimer, dpc, dops, dcur, dnodes,
          lockSlots, wire, enq, now, feed, calendar, result, cron, tables, requests, args, ret>>

NoPin ==
    [code |-> "", from |-> 0, until |-> 0, status |-> "none", method |-> "", regen |-> FALSE]
NoStatic == [code |-> "", enabled |-> FALSE, always |-> FALSE, slot |-> 0, schedules |-> {}]
NoRow == [slot |-> 0, sync |-> "none", err |-> <<>>]
NoOps == [l \in Locks |-> <<>>]
NoRet == [fn |-> "none"]
NoResult == [fetch |-> "none", err |-> "", events_found |-> 0, pins_created |-> 0,
             pins_updated |-> 0, pins_removed |-> 0]

\* a calendar that was never synced, and no function applied on its own
\* a row of calendar_subscriptions as the schema's defaults make it
NewCalendar(enabled, syncIntervalMin) ==
    [enabled |-> enabled, sync_interval_min |-> syncIntervalMin,
     sync_status |-> "pending", sync_error |-> "", last_sync_at |-> -1]

\* no entry in the cron
NoEntry == -1

\* the sync scheduler before Start: the cron has no entry
NoCron ==
    [time |-> 0, job |-> NoEntry, entries |-> 0, refresh |-> NoEntry, lastSync |-> NoEntry]

\* the ids of the requests that run side by side
ReqIds == {"r1", "r2"}

NoRequest ==
    [op |-> "none", pc |-> "idle", uid |-> "", name |-> <<>>, code |-> "", slot |-> 0,
     outcome |-> ""]

EmptyTables ==
    [guest_pins |-> {}, guest_pin_locks |-> {}, static_pins |-> {}, static_pin_locks |-> {}]

\* no request under way
NoRequests ==
    /\ tables = EmptyTables
    /\ requests = [r \in ReqIds |-> NoRequest]

IdleCalendar ==
    /\ calendar = NewCalendar(TRUE, 15)
    /\ result = NoResult
    /\ cron = NoCron
    /\ NoRequests

NoCall ==
    /\ args = NoRet
    /\ ret = NoRet

(***************************************************************************)
(* lock.Manager: the batch queue.                                          *)
(***************************************************************************)
\* the fields of Manager that queueOperation reads and writes, as one value
Writer == [pendingOps |-> pendingOps, batchTimer |-> batchTimer,
           dpc |-> dpc, enq |-> enq]

SetWriter(w) ==
    /\ pendingOps' = w.pendingOps
    /\ batchTimer' = w.batchTimer
    /\ dpc' = w.dpc
    /\ enq' = w.enq

\* time.AfterFunc: the next timer object
NewTimer(pc) == CHOOSE t \in Timers : pc[t] = "unused" /\ \A u \in Timers : pc[u] = "unused" => t <= u

PINOperation(lockID, pinCode, slotNumber, operation, guestPINID) ==
    [n |-> 0, lock |-> lockID, code |-> pinCode, slot |-> slotNumber,
     operation |-> operation, owner |-> guestPINID]

\* Manager.queueOperation: append to the lock's queue; arm the batch timer
\* when none is recorded. n is the operation's position in the enqueue order.
queueOperation(w, op) ==
    LET o == [op EXCEPT !.n = Len(w.enq) + 1]
        t == NewTimer(w.dpc)
    IN  [pendingOps |-> [w.pendingOps EXCEPT ![o.lock] = Append(@, o)],
         batchTimer |-> IF w.batchTimer = 0 THEN t ELSE w.batchTimer,
         dpc |-> IF w.batchTimer = 0 THEN [w.dpc EXCEPT ![t] = "armed"] ELSE w.dpc,
         enq |-> Append(w.enq, o)]

\* Manager.SetPIN / ClearPIN
SetPIN(w, lockID, pinCode, slotNumber, guestPINID) ==
    queueOperation(w, PINOperation(lockID, pinCode, slotNumber, "set", guestPINID))

ClearPIN(w, lockID, slotNumber, guestPINID) ==
    queueOperation(w, PINOperation(lockID, "", slotNumber, "clear", guestPINID))

\* Manager.SetStaticPIN / ClearStaticPIN: the static PIN's id is not put
\* into the operation
SetStaticPIN(w, lockID, pinCode, slotNumber, staticPINID) ==
    queueOperation(w, PINOperation(lockID, pinCode, slotNumber, "set", ""))

ClearStaticPIN(w, lockID, slotNumber, staticPINID) ==
    queueOperation(w, PINOperation(lockID, "", slotNumber, "clear", ""))

\* room for k more operations within the model's bound
Room(k) == Len(enq) + k <= MaxOps

(***************************************************************************)
(* lock.Manager.flushBatch: the writer chain and the execution of one      *)
(* operation.                                                              *)
(***************************************************************************)
\* flushBatch, the choice of writers: direct Z-Wave JS UI with Home
\* Assistant as fallback when the lock asks for it and stateMap has its
\* node_id; Home Assistant alone otherwise
HasFallback(d, l) == DirectIntegration(l) = "zwave_js_ui" /\ l \in dnodes[d]

PrimaryName(d, l) == IF HasFallback(d, l) THEN "zwave_js_ui" ELSE "home_assistant"

\* the error a failed call returns. HAClient.callService answers a non-2xx
\* status with the path and the request's payload, which for a set holds the
\* code; ZWaveJSUIClient.call answers with the transport's error text
\* A message is the sequence of its parts, so that what it contains can
\* be told.
ErrorOf(call) ==
    IF call.via = "home_assistant"
    THEN <<"API error calling", call.kind, "with payload", call.code>>
    ELSE <<"zwave_js_ui error">>

\* flushBatch, lines 181-195: the calls one operation makes. The fallback
\* is called when the primary returned an error and a fallback exists.
Calls(d, op, primOk, fbOk) ==
    LET first == [n |-> op.n, d |-> d, lock |-> op.lock, slot |-> op.slot,
                  kind |-> op.operation, code |-> op.code,
                  via |-> PrimaryName(d, op.lock), role |-> "primary",
                  ok |-> primOk]
    IN  IF ~primOk /\ HasFallback(d, op.lock)
        THEN <<first, [first EXCEPT !.via = "home_assistant",
                                    !.role = "fallback", !.ok = fbOk]>>
        ELSE <<first>>

\* err after the calls: that of the last call made
LastCall(calls) == calls[Len(calls)]

\* flushBatch, lines 197-205: the status recorded for an outcome
StatusOf(call) == IF call.ok THEN "synced" ELSE "failed"

ErrMsgOf(call) == IF call.ok THEN <<>> ELSE ErrorOf(call)

\* GuestPINRepository.UpdateLockSyncStatus: an UPDATE of the row, if any
UpdateLockSyncStatus(g, guestPINID, lockID, status, errMsg) ==
    IF g[guestPINID, lockID].sync = "none" THEN g
    ELSE [g EXCEPT ![guestPINID, lockID] = [@ EXCEPT !.sync = status, !.err = errMsg]]

\* flushBatch, lines 207-209: only an operation with a GuestPINID records
\* its outcome
RecordOutcome(g, op, call) ==
    IF op.owner # ""
    THEN UpdateLockSyncStatus(g, op.owner, op.lock, StatusOf(call), ErrMsgOf(call))
    ELSE g

\* what the device holds after a call: a successful set programs the code,
\* a successful clear empties the slot
ApplyCall(ls, call) ==
    IF ~call.ok THEN ls
    ELSE [ls EXCEPT ![call.lock][call.slot] =
              IF call.kind = "set" THEN call.code ELSE ""]

RECURSIVE ApplyCalls(_, _)
ApplyCalls(ls, calls) ==
    IF calls = <<>> THEN ls
    ELSE ApplyCalls(ApplyCall(ls, Head(calls)), Tail(calls))

\* the batch of a flushBatch invocation is exhausted
Exhausted(batch) == \A l \in Locks : batch[l] = <<>>

\* a flushBatch that leaves the timer recorded in batchTimer
FlushTakeKeepsTimer(d) ==
    /\ dpc[d] = "ready"
    /\ pendingOps' = NoOps
    /\ dops' = [dops EXCEPT ![d] = pendingOps]
    /\ dpc' = [dpc EXCEPT ![d] = IF Exhausted(pendingOps) THEN "done" ELSE "exec"]
    /\ \E S \in SUBSET {l \in Locks : DirectIntegration(l) = "zwave_js_ui"
                                         /\ pendingOps[l] # <<>>} :
          dnodes' = [dnodes EXCEPT ![d] = S]
    /\ UNCHANGED <<calVars, pureVars, reqVars, pinStates, batchTimer, dcur, storeVars, envVars,
                   worldVars>>

\* flushBatch, lines 142-146: under batchMu take the queue, leave an empty
\* one and forget the timer; then preload stateMap (which node ids it holds
\* depends on Home Assistant)
FlushTake(d) ==
    /\ dpc[d] = "ready"
    /\ pendingOps' = NoOps
    /\ batchTimer' = 0
    /\ dops' = [dops EXCEPT ![d] = pendingOps]
    /\ dpc' = [dpc EXCEPT ![d] = IF Exhausted(pendingOps) THEN "done" ELSE "exec"]
    /\ \E S \in SUBSET {l \in Locks : DirectIntegration(l) = "zwave_js_ui"
                                         /\ pendingOps[l] # <<>>} :
          dnodes' = [dnodes EXCEPT ![d] = S]
    /\ UNCHANGED <<calVars, pureVars, reqVars, pinStates, dcur, storeVars, envVars, worldVars>>

\* the lock the range loop of flushBatch is at: it stays on a lock until
\* that lock's operations are done, then moves to any other lock of the batch
LoopAt(d, l) ==
    /\ dops[d][l] # <<>>
    /\ (dcur[d] # NoLock /\ dops[d][dcur[d]] # <<>>) => l = dcur[d]

Finish(d, batch) ==
    /\ dops' = [dops EXCEPT ![d] = batch]
    /\ dpc' = [dpc EXCEPT ![d] = IF Exhausted(batch) THEN "done" ELSE "exec"]
    /\ dnodes' = [dnodes EXCEPT ![d] = IF Exhausted(batch) THEN {} ELSE @]

\* flushBatch, lines 160-211: one iteration of the inner loop, or, for a
\* lock whose row is gone (lines 161-165), the skip of its operations
FlushExec(d) ==
    /\ dpc[d] = "exec"
    /\ \E l \in Locks, primOk, fbOk \in BOOLEAN :
          /\ LoopAt(d, l)
          /\ IF l \notin locks
             THEN /\ Finish(d, [dops[d] EXCEPT ![l] = <<>>])
                  /\ dcur' = [dcur EXCEPT ![d] = NoLock]
                  /\ UNCHANGED <<wire, lockSlots, gpl>>
             ELSE LET op == Head(dops[d][l])
                      calls == Calls(d, op, primOk, fbOk)
                      rest == [dops[d] EXCEPT ![l] = Tail(@)]
                  IN  /\ wire' = [wire EXCEPT ![l] = @ \o calls]
                      /\ lockSlots' = ApplyCalls(lockSlots, calls)
                      /\ gpl' = RecordOutcome(gpl, op, LastCall(calls))
                      /\ Finish(d, rest)
                      /\ dcur' = [dcur EXCEPT ![d] = IF rest[l] = <<>> THEN NoLock ELSE l]
    /\ UNCHANGED <<calVars, pureVars, reqVars, pinStates, pendingOps, batchTimer, guestPins, staticPins, spl, locks, enq, envVars>>

\* the batch timer expires: time.AfterFunc starts flushBatch in a goroutine
TimerFires(t) ==
    /\ t \in Timers
    /\ dpc[t] = "armed"
    /\ dpc' = [dpc EXCEPT ![t] = "ready"]
    /\ UNCHANGED <<calVars, pureVars, reqVars, pinStates, pendingOps, batchTimer, dops, dcur, dnodes, storeVars, envVars, worldVars>>

\* Manager.FlushNow, lines 216-220: under batchMu stop the recorded timer
\* (Stop has no effect on a timer that has fired); flushBatch follows
FlushNow(f) ==
    /\ f \in Flushers
    /\ dpc[f] = "unused"
    /\ \A g \in Flushers : g < f => dpc[g] # "unused"
    /\ dpc' = IF batchTimer # 0 /\ dpc[batchTimer] = "armed"
              THEN [dpc EXCEPT ![f] = "ready", ![batchTimer] = "stopped"]
              ELSE [dpc EXCEPT ![f] = "ready"]
    /\ UNCHANGED <<calVars, pureVars, reqVars, pinStates, pendingOps, batchTimer, dops, dcur, dnodes, storeVars, envVars, worldVars>>

(***************************************************************************)
(* The clock and the schedules of static PINs (pin.ScheduleEvaluator).     *)
(***************************************************************************)
\* the clock advances
Tick ==
    /\ now < MaxNow
    /\ now' = now + 1
    /\ UNCHANGED <<calVars, pureVars, reqVars, pinStates, feed, storeVars, writerVars, worldVars>>

\* the weekday and the minute of the day of an instant of the clock
Weekday(t) == (t \div 3) % 7
InstantMinutes == <<0, 660, 900>>
MinuteOf(t) == InstantMinutes[(t % 3) + 1]

\* a time of day as the string "HH:MM", a sequence of its bytes' ranks: the
\* digits 0..9 and the colon, which sorts after them
Colon == 10
\* time.Format("15:04") of a minute of the day
Format1504(m) == <<m \div 600, (m \div 60) % 10, Colon, (m % 60) \div 10, m % 10>>

\* Go's comparison of strings: byte by byte, a proper prefix is smaller
RECURSIVE StrLess(_, _)
StrLess(a, b) ==
    IF b = <<>> THEN FALSE
    ELSE IF a = <<>> THEN TRUE
    ELSE IF Head(a) # Head(b) THEN Head(a) < Head(b)
    ELSE StrLess(Tail(a), Tail(b))

StrLeq(a, b) == a = b \/ StrLess(a, b)

\* models.StaticPINSchedule
StaticPINSchedule(dayOfWeek, startTime, endTime) ==
    [day |-> dayOfWeek, start |-> startTime, end |-> endTime]

\* ScheduleEvaluator.isScheduleActive: the schedule's day is the weekday
\* and the time is inside its window; a window whose start is after its end
\* runs overnight
isScheduleActive(schedule, weekday, currentTime) ==
    IF schedule.day # weekday THEN FALSE
    ELSE IF StrLess(schedule.end, schedule.start)
         THEN StrLeq(schedule.start, currentTime) \/ StrLeq(currentTime, schedule.end)
         ELSE StrLeq(schedule.start, currentTime) /\ StrLeq(currentTime, schedule.end)

\* ScheduleEvaluator.IsStaticPINActive at a local weekday and time of day
IsStaticPINActive(pin, weekday, currentTime) ==
    IF ~pin.enabled THEN FALSE
    ELSE IF pin.always THEN TRUE
    ELSE IF pin.schedules = {} THEN FALSE
    ELSE \E schedule \in pin.schedules : isScheduleActive(schedule, weekday, currentTime)

\* models.StaticPINWithSchedules.IsActiveAt: the same question, answered
\* without the overnight case
IsActiveAt(pin, weekday, currentTime) ==
    IF ~pin.enabled THEN FALSE
    ELSE IF pin.always THEN TRUE
    ELSE IF pin.schedules = {} THEN FALSE
    ELSE \E schedule \in pin.schedules :
            /\ schedule.day = weekday
            /\ StrLeq(schedule.start, currentTime)
            /\ StrLeq(currentTime, schedule.end)

\* evaluateSchedules: shouldBeActive of a static PIN now
ShouldBeActive(s) ==
    IsStaticPINActive(staticPins[s], Weekday(now), Format1504(MinuteOf(now)))

(***************************************************************************)
(* WriterSpec: the lock writer alone. Its entry points are called with     *)
(* the assignments of a fixed store: one active guest PIN on L1 and one    *)
(* static PIN on L2, scheduled for the morning of day 1.                   *)
(***************************************************************************)
WriterInit ==
    /\ now = 3
    /\ IdleCalendar
    /\ NoCall
    /\ pinStates = [s \in StaticIds |-> FALSE]
    /\ feed = [e \in Events |-> IF e = "e1" THEN <<0, 1>> ELSE NoStay]
    /\ guestPins = [e \in Events |->
                       IF e = "e1"
                       THEN [code |-> "0102", from |-> 2, until |-> 4,
                             status |-> "active", method |-> "date_based",
                             regen |-> TRUE]
                       ELSE NoPin]
    /\ staticPins = [s \in StaticIds |->
                        IF s = "s1"
                        THEN [code |-> "9999", enabled |-> TRUE, always |-> FALSE, slot |-> 2,
                              schedules |-> {StaticPINSchedule(1, Format1504(0),
                                                               Format1504(660))}]
                        ELSE NoStatic]
    /\ gpl = [k \in Events \X Locks |->
                 IF k = <<"e1", "L1">> THEN [slot |-> 1, sync |-> "pending", err |-> <<>>]
                 ELSE NoRow]
    /\ spl = [k \in StaticIds \X Locks |->
                 IF k = <<"s1", "L2">> THEN [slot |-> 2, sync |-> "pending", err |-> <<>>]
                 ELSE NoRow]
    /\ locks = Locks
    /\ pendingOps = NoOps
    /\ batchTimer = 0
    /\ dpc = [d \in Drains |-> "unused"]
    /\ dops = [d \in Drains |-> NoOps]
    /\ dcur = [d \in Drains |-> NoLock]
    /\ dnodes = [d \in Drains |-> {}]
    /\ lockSlots = [l \in Locks |-> [n \in 1..2 |-> ""]]
    /\ wire = [l \in Locks |-> <<>>]
    /\ enq = <<>>

\* a caller of Manager.SetPIN (queueLockSync, SyncGuestPINs) for an assignment
CallSetPIN(p, l) ==
    /\ Room(1)
    /\ gpl[p, l].sync # "none"
    /\ SetWriter(SetPIN(Writer, l, guestPins[p].code, gpl[p, l].slot, p))
    /\ UNCHANGED <<calVars, pureVars, reqVars, pinStates, dops, dcur, dnodes, storeVars, envVars, lockSlots, wire>>

\* a caller of Manager.ClearPIN (queueLockClear, SyncGuestPINs)
CallClearPIN(p, l) ==
    /\ Room(1)
    /\ gpl[p, l].sync # "none"
    /\ SetWriter(ClearPIN(Writer, l, gpl[p, l].slot, p))
    /\ UNCHANGED <<calVars, pureVars, reqVars, pinStates, dops, dcur, dnodes, storeVars, envVars, lockSlots, wire>>

\* the static assignments, in order
RECURSIVE StaticAssignmentsOf(_, _)
StaticAssignmentsOf(g, ids) ==
    IF ids = <<>> THEN <<>>
    ELSE SelectSeq([i \in DOMAIN LockOrder |-> <<Head(ids), LockOrder[i]>>],
                   LAMBDA k : g[k].sync # "none")
         \o StaticAssignmentsOf(g, Tail(ids))

\* activatePin's loop: one call of SetStaticPIN per assignment
RECURSIVE SetStaticAll(_, _, _)
SetStaticAll(w, s, keys) ==
    IF keys = <<>> THEN w
    ELSE SetStaticAll(SetStaticPIN(w, Head(keys)[2], staticPins[s].code,
                                   spl[Head(keys)].slot, s),
                      s, Tail(keys))

\* deactivatePin's loop: one call of ClearStaticPIN per assignment
RECURSIVE ClearStaticAll(_, _, _)
ClearStaticAll(w, s, keys) ==
    IF keys = <<>> THEN w
    ELSE ClearStaticAll(ClearStaticPIN(w, Head(keys)[2], spl[Head(keys)].slot, s),
                        s, Tail(keys))

\* an activatePin that does not look at the PIN's state: a set is queued on
\* every evaluation that finds the PIN due
activatePinLevelTriggered(s) ==
    LET keys == StaticAssignmentsOf(spl, <<s>>)
    IN  /\ staticPins[s].enabled
        /\ ShouldBeActive(s)
        /\ Room(Len(keys))
        /\ SetWriter(SetStaticAll(Writer, s, keys))
        /\ spl' = [k \in DOMAIN spl |->
                      IF k[1] = s /\ spl[k].sync # "none"
                      THEN [spl[k] EXCEPT !.sync = "synced"] ELSE spl[k]]
        /\ pinStates' = [pinStates EXCEPT ![s] = TRUE]
        /\ UNCHANGED <<calVars, pureVars, reqVars, guestPins, staticPins, gpl, locks, dops, dcur, dnodes, envVars,
                       lockSlots, wire>>

\* StaticPINScheduler.activatePin, called by evaluateSchedules for an enabled
\* PIN that should be on the locks and is not: a set without owner id is
\* queued for each assignment, the assignment is marked synced at once
\* (SetStaticPIN returns no error) and the PIN's state becomes active
activatePin(s) ==
    LET keys == StaticAssignmentsOf(spl, <<s>>)
    IN  /\ staticPins[s].enabled
        /\ ShouldBeActive(s)
        /\ ~pinStates[s]
        /\ Room(Len(keys))
        /\ SetWriter(SetStaticAll(Writer, s, keys))
        /\ spl' = [k \in DOMAIN spl |->
                      IF k[1] = s /\ spl[k].sync # "none"
                      THEN [spl[k] EXCEPT !.sync = "synced"] ELSE spl[k]]
        /\ pinStates' = [pinStates EXCEPT ![s] = TRUE]
        /\ UNCHANGED <<calVars, pureVars, reqVars, guestPins, staticPins, gpl, locks, dops, dcur, dnodes, envVars,
                       lockSlots, wire>>

\* StaticPINScheduler.deactivatePin, called by evaluateSchedules for an
\* enabled PIN that is on the locks and should not be: a clear without owner
\* id is queued for each assignment, the assignment is marked pending and
\* the PIN's state becomes inactive
deactivatePin(s) ==
    LET keys == StaticAssignmentsOf(spl, <<s>>)
    IN  /\ staticPins[s].enabled
        /\ ~ShouldBeActive(s)
        /\ pinStates[s]
        /\ Room(Len(keys))
        /\ SetWriter(ClearStaticAll(Writer, s, keys))
        /\ spl' = [k \in DOMAIN spl |->
                      IF k[1] = s /\ spl[k].sync # "none"
                      THEN [spl[k] EXCEPT !.sync = "pending"] ELSE spl[k]]
        /\ pinStates' = [pinStates EXCEPT ![s] = FALSE]
        /\ UNCHANGED <<calVars, pureVars, reqVars, guestPins, staticPins, gpl, locks, dops, dcur, dnodes, envVars,
                       lockSlots, wire>>

WriterNext ==
    \/ Tick
    \/ \E p \in Events, l \in Locks : CallSetPIN(p, l)
    \/ \E p \in Events, l \in Locks : CallClearPIN(p, l)
    \/ \E s \in StaticIds : activatePin(s)
    \/ \E s \in StaticIds : deactivatePin(s)
    \/ \E t \in Timers : TimerFires(t)
    \/ \E f \in Flushers : FlushNow(f)
    \/ \E d \in Drains : FlushTake(d)
    \/ \E d \in Drains : FlushExec(d)

WriterSpec == WriterInit /\ [][WriterNext]_vars

(***************************************************************************)
(* QueueSpec: the batch queue alone: sets queued for the assignment of     *)
(* WriterInit, the batch timers, FlushNow and the drains, with every drain *)
(* running to its end, Home Assistant knowing the locks' nodes and the     *)
(* transports answering every call.                                        *)
(***************************************************************************)
\* every call made so far was answered without error
TransportsUp == \A l \in Locks : \A i \in DOMAIN wire[l] : wire[l][i].ok

\* stateMap has the node of every lock of the batch
NodesKnown(d) == dnodes[d] = {l \in Locks : DirectIntegration(l) = "zwave_js_ui"
                                               /\ dops[d][l] # <<>>}

QueueNext ==
    \/ \E p \in Events, l \in Locks : CallSetPIN(p, l)
    \/ \E t \in Timers : TimerFires(t)
    \/ \E f \in Flushers : FlushNow(f)
    \/ \E d \in Drains : FlushTake(d) /\ NodesKnown(d)'
    \/ \E d \in Drains : FlushExec(d) /\ TransportsUp'

\* a timer that is armed expires, and a goroutine that runs flushBatch goes
\* on
QueueFairness ==
    /\ \A t \in Timers : WF_vars(TimerFires(t))
    /\ \A d \in Drains : WF_vars(FlushTake(d) /\ NodesKnown(d)')
    /\ \A d \in Drains : WF_vars(FlushExec(d) /\ TransportsUp')

QueueSpec == WriterInit /\ [][QueueNext]_vars /\ QueueFairness

(***************************************************************************)
(* The clock, the feed and the calendar sync (calendar.SyncService).       *)
(***************************************************************************)
\* models.CalendarEvent.Start / End of an all-day event: 00:00 of the day
EventStart(stay) == 3 * stay[1]
EventEnd(stay) == 3 * stay[2]

\* SyncService.applyCheckinTime / applyCheckoutTime: 15:00 of the first
\* day, 11:00 of the last
applyCheckinTime(date) == date + 2
applyCheckoutTime(date) == date + 1

\* FilterFutureEvents: the events whose End is after now
FilterFutureEvents(f, t) == {e \in Events : f[e] # NoStay /\ EventEnd(f[e]) > t}

\* GuestPIN.IsActive: strictly inside the validity window
IsActive(pin, t) == t > pin.from /\ t < pin.until

(***************************************************************************)
(* The PIN generator. A string is a sequence of characters here, so that  *)
(* its length, its digits and its prefixes are what they are in the code.  *)
(***************************************************************************)
Digits == {"0", "1", "2", "3", "4", "5", "6", "7", "8", "9"}

\* the decimal digit of n < 10
Digit(n) == <<"0", "1", "2", "3", "4", "5", "6", "7", "8", "9">>[n + 1]

RECURSIVE pow10(_)
pow10(n) == IF n = 0 THEN 1 ELSE 10 * pow10(n - 1)

\* strconv: the decimal digits of n >= 0, without leading zeros
RECURSIVE Itoa(_)
Itoa(n) == IF n < 10 THEN <<Digit(n)>> ELSE Itoa(n \div 10) \o <<Digit(n % 10)>>

\* "0" + pin while len(pin) < width
RECURSIVE PadZero(_, _)
PadZero(pin, width) == IF Len(pin) < width THEN PadZero(<<"0">> \o pin, width) ELSE pin

\* fmt.Sprintf("%0*d", width, n): at least width digits, zeros in front
SprintfZero(width, n) == PadZero(Itoa(n), width)

\* the Go string of a sequence of characters
RECURSIVE Text(_)
Text(s) == IF s = <<>> THEN "" ELSE Head(s) \o Text(Tail(s))

\* NewGenerator: the lengths are brought into 4..8 with min <= max
NewGenerator(minLength, maxLength) ==
    LET min == IF minLength < 4 THEN 4 ELSE minLength
        max0 == IF maxLength < min THEN min ELSE maxLength
        max == IF max0 > 8 THEN 8 ELSE max0
    IN  [minLength |-> min, maxLength |-> max]

\* Generator.isValidPIN: the length fits and every character is a digit
isValidPIN(g, pin) ==
    /\ ~(Len(pin) < g.minLength \/ Len(pin) > g.maxLength)
    /\ \A i \in 1..Len(pin) : pin[i] \in Digits

\* the literal parts of the four patterns of extractPhoneLast4, in the
\* order they are tried; each is followed by \s*(\d{4})
PhonePatterns ==
    << <<"(", "L", "a", "s", "t", " ", "4", " ", "D", "i", "g", "i", "t", "s", ")", ":">>,
       <<"L", "a", "s", "t", " ", "4", " ", "D", "i", "g", "i", "t", "s", ":">>,
       <<"l", "a", "s", "t", " ", "4", " ", "d", "i", "g", "i", "t", "s", ":">>,
       <<"(", "l", "a", "s", "t", " ", "4", " ", "d", "i", "g", "i", "t", "s", ")", ":">> >>

\* \s of Go's regexp
Whitespace == {" ", "\t", "\n", "\f", "\r"}

\* the first position at or after j that holds no whitespace
RECURSIVE SkipSpace(_, _)
SkipSpace(s, j) ==
    IF j <= Len(s) /\ s[j] \in Whitespace THEN SkipSpace(s, j + 1) ELSE j

\* the literal is at position i of s
HasPrefixAt(s, i, literal) ==
    /\ i + Len(literal) - 1 <= Len(s)
    /\ \A k \in 1..Len(literal) : s[i + k - 1] = literal[k]

\* the pattern matches s at position i: the literal, any whitespace, four
\* digits
MatchAt(s, i, literal) ==
    /\ HasPrefixAt(s, i, literal)
    /\ LET j == SkipSpace(s, i + Len(literal))
       IN  /\ j + 3 <= Len(s)
           /\ \A k \in j..(j + 3) : s[k] \in Digits

\* regexp.FindStringSubmatch: the group of the leftmost match, <<>> if the
\* pattern matches nowhere
FindStringSubmatch(s, literal) ==
    LET at == {i \in 1..Len(s) : MatchAt(s, i, literal)}
    IN  IF at = {} THEN <<>>
        ELSE LET i == CHOOSE x \in at : \A y \in at : x <= y
                 j == SkipSpace(s, i + Len(literal))
             IN  SubSeq(s, j, j + 3)

\* Generator.extractPhoneLast4: the patterns are tried in order, the first
\* that matches gives the four digits
RECURSIVE extractPhoneFrom(_, _)
extractPhoneFrom(description, n) ==
    IF n > Len(PhonePatterns) THEN <<>>
    ELSE LET matches == FindStringSubmatch(description, PhonePatterns[n])
         IN  IF matches # <<>> THEN matches ELSE extractPhoneFrom(description, n + 1)

extractPhoneLast4(description) == extractPhoneFrom(description, 1)

\* Generator.generateFromDescription: num is the number the first four
\* bytes of sha256(description + "|" + uid) make
generateFromDescription(g, num) == SprintfZero(g.minLength, num % pow10(g.minLength))

\* Generator.generateFromDates: check-in day then check-out day, the month
\* in front when more than four digits are asked for, zeros in front up to
\* minLength, cut at maxLength
generateFromDates(g, month, inDay, outDay) ==
    LET short == SprintfZero(2, inDay) \o SprintfZero(2, outDay)
        pin == IF g.minLength > 4
               THEN SprintfZero(2, month) \o SprintfZero(2, inDay) \o SprintfZero(2, outDay)
               ELSE short
        padded == PadZero(pin, g.minLength)
    IN  IF Len(padded) > g.maxLength THEN SubSeq(padded, 1, g.maxLength) ELSE padded

\* a GenerateFromEvent that looks for the phone number before the custom
\* code
GenerateFromEventPhoneFirst(g, event, customPIN) ==
    IF extractPhoneLast4(event.description) # <<>>
    THEN [code |-> extractPhoneLast4(event.description), method |-> "phone_last4"]
    ELSE IF customPIN # <<>> /\ isValidPIN(g, customPIN)
    THEN [code |-> customPIN, method |-> "custom"]
    ELSE IF event.description # <<>>
    THEN [code |-> generateFromDescription(g, event.num), method |-> "description_random"]
    ELSE [code |-> generateFromDates(g, event.month, event.inDay, event.outDay),
          method |-> "date_based"]

\* Generator.GenerateFromEvent: custom, phone last-4, description, dates
GenerateFromEvent(g, event, customPIN) ==
    IF customPIN # <<>> /\ isValidPIN(g, customPIN)
    THEN [code |-> customPIN, method |-> "custom"]
    ELSE IF extractPhoneLast4(event.description) # <<>>
    THEN [code |-> extractPhoneLast4(event.description), method |-> "phone_last4"]
    ELSE IF event.description # <<>>
    THEN [code |-> generateFromDescription(g, event.num), method |-> "description_random"]
    ELSE [code |-> generateFromDates(g, event.month, event.inDay, event.outDay),
          method |-> "date_based"]

\* the generator of the sync service: minPIN 4, maxPIN 6
SyncGenerator == NewGenerator(4, 6)

\* the event of a stay as the generator sees it: no description, month 1,
\* day d of the model is the (d+1)th of the month
StayEvent(stay) ==
    [description |-> <<>>, num |-> 0, month |-> 1, inDay |-> stay[1] + 1,
     outDay |-> stay[2] + 1]

\* the code processEvent stores: GenerateFromEvent(event, "").PINCode
EventCodes ==
    [stay \in Stays |-> Text(GenerateFromEvent(SyncGenerator, StayEvent(stay), <<>>).code)]

EventCode(stay) == EventCodes[stay]

\* GuestPINRepository.AssignToLock for the i-th mapped lock and the ones
\* after it: slotNumber starts at 1 and is incremented per lock
RECURSIVE AssignToLocks(_, _, _, _)
AssignToLocks(g, p, lockIDs, slotNumber) ==
    IF lockIDs = <<>> THEN g
    ELSE AssignToLocks([g EXCEPT ![p, Head(lockIDs)] =
                            [slot |-> slotNumber, sync |-> "pending", err |-> <<>>]],
                       p, Tail(lockIDs), slotNumber + 1)

\* a processEvent that derives the code again for every PIN whose dates
\* changed, whatever its generation method
processEventRederivesAlways(st, e, stay, t, lockIDs) ==
    LET validFrom == applyCheckinTime(EventStart(stay))
        validUntil == applyCheckoutTime(EventEnd(stay))
        existing == st.pins[e]
        guestPIN == [code |-> EventCode(stay), from |-> validFrom,
                     until |-> validUntil, status |-> "pending",
                     method |-> "date_based", regen |-> TRUE]
    IN  IF existing.status # "none"
        THEN IF (existing.from # validFrom \/ existing.until # validUntil)
                /\ validFrom < validUntil
             THEN [st EXCEPT !.pins[e] =
                      [existing EXCEPT !.from = validFrom, !.until = validUntil,
                                       !.code = EventCode(stay)],
                             !.updated = @ + 1]
             ELSE st
        ELSE IF ~(validFrom < validUntil) THEN st
             ELSE [st EXCEPT !.pins[e] = IF IsActive(guestPIN, t)
                                         THEN [guestPIN EXCEPT !.status = "active"]
                                         ELSE guestPIN,
                             !.rows = AssignToLocks(st.rows, e, lockIDs, 1),
                             !.created = @ + 1]

\* a processEvent that leaves out the comparison of the dates: every PIN
\* that exists is written again and counted as updated
processEventAlwaysUpdates(st, e, stay, t, lockIDs) ==
    LET validFrom == applyCheckinTime(EventStart(stay))
        validUntil == applyCheckoutTime(EventEnd(stay))
        existing == st.pins[e]
        guestPIN == [code |-> EventCode(stay), from |-> validFrom,
                     until |-> validUntil, status |-> "pending",
                     method |-> "date_based", regen |-> TRUE]
    IN  IF existing.status # "none"
        THEN IF validFrom < validUntil
             THEN [st EXCEPT !.pins[e] =
                      [existing EXCEPT !.from = validFrom, !.until = validUntil,
                                       !.code = IF existing.method = "date_based"
                                                THEN EventCode(stay) ELSE @],
                             !.updated = @ + 1]
             ELSE st
        ELSE IF ~(validFrom < validUntil) THEN st
             ELSE [st EXCEPT !.pins[e] = IF IsActive(guestPIN, t)
                                         THEN [guestPIN EXCEPT !.status = "active"]
                                         ELSE guestPIN,
                             !.rows = AssignToLocks(st.rows, e, lockIDs, 1),
                             !.created = @ + 1]

\* SyncService.processEvent on the store st = [pins, rows] with the counts
\* of the sync so far: an existing PIN whose dates changed is updated (its
\* code re-derived when date_based) and counted as updated; a new PIN is
\* created pending, or active when now is inside its window, assigned to
\* the mapped locks and counted as created. The CHECK valid_from <
\* valid_until makes the INSERT or UPDATE fail, and nothing is counted.
processEvent(st, e, stay, t, lockIDs) ==
    LET validFrom == applyCheckinTime(EventStart(stay))
        validUntil == applyCheckoutTime(EventEnd(stay))
        existing == st.pins[e]
        guestPIN == [code |-> EventCode(stay), from |-> validFrom,
                     until |-> validUntil, status |-> "pending",
                     method |-> "date_based", regen |-> TRUE]
    IN  IF existing.status # "none"
        THEN IF (existing.from # validFrom \/ existing.until # validUntil)
                /\ validFrom < validUntil
             THEN [st EXCEPT !.pins[e] =
                      [existing EXCEPT !.from = validFrom, !.until = validUntil,
                                       !.code = IF existing.method = "date_based"
                                                THEN EventCode(stay) ELSE @],
                             !.updated = @ + 1]
             ELSE st
        ELSE IF ~(validFrom < validUntil) THEN st
             ELSE [st EXCEPT !.pins[e] = IF IsActive(guestPIN, t)
                                         THEN [guestPIN EXCEPT !.status = "active"]
                                         ELSE guestPIN,
                             !.rows = AssignToLocks(st.rows, e, lockIDs, 1),
                             !.created = @ + 1]

RECURSIVE processEvents(_, _, _, _, _)
processEvents(st, es, f, t, lockIDs) ==
    IF es = <<>> THEN st
    ELSE processEvents(processEvent(st, Head(es), f[Head(es)], t, lockIDs),
                       Tail(es), f, t, lockIDs)

\* a markExpiredPINs that looks at pending PINs only: the active PIN of a
\* dropped event stays active
markExpiredPINsPendingOnly(pins, currentUIDs) ==
    [e \in Events |->
        IF pins[e].status = "pending" /\ e \notin currentUIDs
        THEN [pins[e] EXCEPT !.status = "expired"]
        ELSE pins[e]]

\* SyncService.markExpiredPINs: every PIN that is not expired and whose
\* event is not among the current (filtered) events becomes expired
markExpiredPINs(pins, currentUIDs) ==
    [e \in Events |->
        IF pins[e].status \notin {"none", "expired"} /\ e \notin currentUIDs
        THEN [pins[e] EXCEPT !.status = "expired"]
        ELSE pins[e]]

\* markExpiredPINs' count: the PINs it moves to expired
Removed(pins, currentUIDs) ==
    Cardinality({e \in Events : pins[e].status \notin {"none", "expired"}
                                 /\ e \notin currentUIDs})

\* SyncService.SyncCalendar after a successful fetch, lines 78-117: filter,
\* process each event, mark the PINs of absent events expired; the store it
\* leaves and the counts it returns
SyncOutcome(pins, rows, f, t) ==
    LET current == FilterFutureEvents(f, t)
        events == SelectSeq(EventOrder, LAMBDA e : e \in current)
        st == processEvents([pins |-> pins, rows |-> rows, created |-> 0, updated |-> 0],
                            events, f, t, CalendarLocks)
    IN  [pins |-> markExpiredPINs(st.pins, current),
         rows |-> st.rows,
         events_found |-> Cardinality({e \in Events : f[e] # NoStay}),
         pins_created |-> st.created,
         pins_updated |-> st.updated,
         pins_removed |-> Removed(st.pins, current)]

\* the error of Parser.FetchAndParse
FetchError == "fetching calendar"

\* an UpdateSyncStatus without the COALESCE: last_sync_at is written by
\* every call
UpdateSyncStatusAlwaysStamps(cal, status, syncError, t) ==
    [cal EXCEPT !.sync_status = status, !.sync_error = syncError, !.last_sync_at = t]

\* CalendarRepository.UpdateSyncStatus: last_sync_at is written on success
UpdateSyncStatus(cal, status, syncError, t) ==
    [cal EXCEPT !.sync_status = status, !.sync_error = syncError,
                !.last_sync_at = IF status = "success" THEN t ELSE @]

\* SyncService.SyncCalendar: the feed is fetched and parsed (fetchOk tells
\* whether that worked). A failure is recorded on the calendar and
\* returned; otherwise the events are processed and the calendar's status
\* becomes success
SyncCalendarWrites(fetchOk) ==
    LET out == SyncOutcome(guestPins, gpl, feed, now)
    IN  IF fetchOk
        THEN /\ guestPins' = out.pins
             /\ gpl' = out.rows
             /\ calendar' = UpdateSyncStatus(calendar, "success", "", now)
             /\ result' = [fetch |-> "ok", err |-> "",
                           events_found |-> out.events_found,
                           pins_created |-> out.pins_created,
                           pins_updated |-> out.pins_updated,
                           pins_removed |-> out.pins_removed]
        ELSE /\ UNCHANGED <<guestPins, gpl>>
             /\ calendar' = UpdateSyncStatus(calendar, "error", FetchError, now)
             /\ result' = [NoResult EXCEPT !.fetch = "error", !.err = FetchError]

SyncCalendarRun(fetchOk) ==
    /\ SyncCalendarWrites(fetchOk)
    /\ UNCHANGED <<cron, pureVars, reqVars, pinStates, staticPins, spl, locks, writerVars, worldVars,
                   envVars>>

SyncCalendar == \E fetchOk \in BOOLEAN : SyncCalendarRun(fetchOk)

\* SyncCalendar as the PIN store sees it: what a run does to guest_pins and
\* guest_pin_locks (a run whose fetch fails does nothing to them). The
\* calendar's row, which only the sync writes and nothing of the engine
\* reads, and the returned result are left out.
SyncCalendarPINs ==
    LET out == SyncOutcome(guestPins, gpl, feed, now)
    IN  /\ guestPins' = out.pins
        /\ gpl' = out.rows
        /\ UNCHANGED <<calVars, pureVars, reqVars, pinStates, staticPins, spl, locks, writerVars,
                       worldVars, envVars>>

\* a booking appears in the feed, changes its dates, or is cancelled
Publish(e, stay) ==
    /\ feed[e] = NoStay
    /\ guestPins[e].status = "none"
    /\ feed' = [feed EXCEPT ![e] = stay]
    /\ UNCHANGED <<calVars, pureVars, reqVars, pinStates, now, storeVars, writerVars, worldVars>>

Reschedule(e, stay) ==
    /\ feed[e] # NoStay
    /\ feed[e] # stay
    /\ feed' = [feed EXCEPT ![e] = stay]
    /\ UNCHANGED <<calVars, pureVars, reqVars, pinStates, now, storeVars, writerVars, worldVars>>

Cancel(e) ==
    /\ feed[e] # NoStay
    /\ feed' = [feed EXCEPT ![e] = NoStay]
    /\ UNCHANGED <<calVars, pureVars, reqVars, pinStates, now, storeVars, writerVars, worldVars>>

(***************************************************************************)
(* The periodic status loops: pin.StatusScheduler and the calendar         *)
(* scheduler's updatePINStatuses.                                          *)
(***************************************************************************)
\* GuestPINRepository.ListPendingActivation / ListExpired
ListPendingActivation(pins, t) ==
    SelectSeq(EventOrder, LAMBDA e : pins[e].status = "pending" /\ pins[e].from <= t)

ListExpired(pins, t) ==
    SelectSeq(EventOrder, LAMBDA e : pins[e].status = "active" /\ pins[e].until <= t)

\* GuestPINRepository.UpdateStatus for each PIN of a list
UpdateStatusAll(pins, ids, status) ==
    [e \in Events |->
        IF \E i \in DOMAIN ids : ids[i] = e
        THEN [pins[e] EXCEPT !.status = status] ELSE pins[e]]

\* GuestPINRepository.GetLockAssignments of the PINs of a list, in order
RECURSIVE AssignmentsOf(_, _)
AssignmentsOf(g, ids) ==
    IF ids = <<>> THEN <<>>
    ELSE SelectSeq([i \in DOMAIN LockOrder |-> <<Head(ids), LockOrder[i]>>],
                   LAMBDA k : g[k].sync # "none")
         \o AssignmentsOf(g, Tail(ids))

\* queue a sequence of operations, one call of queueOperation each
RECURSIVE QueueAll(_, _)
QueueAll(w, ops) ==
    IF ops = <<>> THEN w ELSE QueueAll(queueOperation(w, Head(ops)), Tail(ops))

\* StatusScheduler.queueLockSync / queueLockClear for the PINs of a list
SetOps(pins, g, keys) ==
    [i \in DOMAIN keys |->
        PINOperation(keys[i][2], pins[keys[i][1]].code, g[keys[i]].slot, "set", keys[i][1])]

ClearOps(g, keys) ==
    [i \in DOMAIN keys |->
        PINOperation(keys[i][2], "", g[keys[i]].slot, "clear", keys[i][1])]

\* StatusScheduler.activatePendingPINs: every pending PIN whose window has
\* begun becomes active and a set is queued for each of its assignments
activatePendingPINs ==
    LET pins == ListPendingActivation(guestPins, now)
        ops == SetOps(guestPins, gpl, AssignmentsOf(gpl, pins))
    IN  /\ pins # <<>>
        /\ Room(Len(ops))
        /\ guestPins' = UpdateStatusAll(guestPins, pins, "active")
        /\ SetWriter(QueueAll(Writer, ops))
        /\ UNCHANGED <<calVars, pureVars, reqVars, pinStates, staticPins, gpl, spl, locks, dops, dcur, dnodes, lockSlots, wire,
                       envVars>>

\* StatusScheduler.expireOldPINs: every active PIN whose window has ended
\* becomes expired and a clear is queued for each of its assignments
expireOldPINs ==
    LET pins == ListExpired(guestPins, now)
        ops == ClearOps(gpl, AssignmentsOf(gpl, pins))
    IN  /\ pins # <<>>
        /\ Room(Len(ops))
        /\ guestPins' = UpdateStatusAll(guestPins, pins, "expired")
        /\ SetWriter(QueueAll(Writer, ops))
        /\ UNCHANGED <<calVars, pureVars, reqVars, pinStates, staticPins, gpl, spl, locks, dops, dcur, dnodes, lockSlots, wire,
                       envVars>>

\* SyncService.UpdatePINStatuses (the calendar scheduler's one-minute job):
\* the same two status changes, nothing queued
UpdatePINStatuses ==
    LET activated == UpdateStatusAll(guestPins, ListPendingActivation(guestPins, now),
                                     "active")
        expired == UpdateStatusAll(activated, ListExpired(activated, now), "expired")
    IN  /\ expired # guestPins
        /\ guestPins' = expired
        /\ UNCHANGED <<calVars, pureVars, reqVars, pinStates, staticPins, gpl, spl, locks, writerVars, worldVars, envVars>>

\* a SyncGuestPINs that selects the failed assignments as well
SyncGuestOpsRetriesFailed(pins, g) ==
    LET keys == SelectSeq(AssignmentsOf(g, EventOrder),
                          LAMBDA k : g[k].sync \in {"pending", "failed"}
                                     /\ pins[k[1]].status \in {"active", "expired"})
    IN  [i \in DOMAIN keys |->
            IF pins[keys[i][1]].status = "active"
            THEN PINOperation(keys[i][2], pins[keys[i][1]].code, g[keys[i]].slot, "set",
                              keys[i][1])
            ELSE PINOperation(keys[i][2], "", g[keys[i]].slot, "clear", keys[i][1])]

\* Manager.SyncGuestPINs: for every pending assignment, a set when its PIN
\* is active, a clear when it is expired
SyncGuestOps(pins, g) ==
    LET keys == SelectSeq(AssignmentsOf(g, EventOrder),
                          LAMBDA k : g[k].sync = "pending"
                                     /\ pins[k[1]].status \in {"active", "expired"})
    IN  [i \in DOMAIN keys |->
            IF pins[keys[i][1]].status = "active"
            THEN PINOperation(keys[i][2], pins[keys[i][1]].code, g[keys[i]].slot, "set",
                              keys[i][1])
            ELSE PINOperation(keys[i][2], "", g[keys[i]].slot, "clear", keys[i][1])]

\* Manager.SyncStaticPINs: for every pending static assignment, a set when
\* its PIN is enabled, a clear otherwise; no owner id is passed
SyncStaticOps(pins, g) ==
    LET keys == SelectSeq(StaticAssignmentsOf(g, StaticOrder),
                          LAMBDA k : g[k].sync = "pending")
    IN  [i \in DOMAIN keys |->
            IF pins[keys[i][1]].enabled
            THEN PINOperation(keys[i][2], pins[keys[i][1]].code, g[keys[i]].slot, "set", "")
            ELSE PINOperation(keys[i][2], "", g[keys[i]].slot, "clear", "")]

\* StatusScheduler.syncPendingOperations (every 30 s): SyncGuestPINs, then
\* SyncStaticPINs
syncPendingOperations ==
    LET ops == SyncGuestOps(guestPins, gpl) \o SyncStaticOps(staticPins, spl)
    IN  /\ ops # <<>>
        /\ Room(Len(ops))
        /\ SetWriter(QueueAll(Writer, ops))
        /\ UNCHANGED <<calVars, pureVars, reqVars, pinStates, storeVars, dops, dcur, dnodes, lockSlots, wire, envVars>>

(***************************************************************************)
(* The API handlers that write PINs.                                       *)
(***************************************************************************)
\* handlers.UpdateGuestPin with a status in the request: the status is
\* written when it is one of the three, whatever the PIN's status is
UpdateGuestPin(p, status) ==
    /\ status \in {"pending", "active", "expired"}
    /\ guestPins[p].status # "none"
    /\ guestPins' = [guestPins EXCEPT ![p].status = status]
    /\ UNCHANGED <<calVars, pureVars, reqVars, pinStates, staticPins, gpl, spl, locks, writerVars, worldVars, envVars>>

\* handlers.UpdateGuestPin with a custom_pin in the request and no status:
\* the code becomes the custom code and the method custom
UpdateGuestPinCustom(p, customPin) ==
    /\ guestPins[p].status # "none"
    /\ guestPins' = [guestPins EXCEPT ![p].code = customPin, ![p].method = "custom"]
    /\ UNCHANGED <<calVars, pureVars, reqVars, pinStates, staticPins, gpl, spl, locks, writerVars, worldVars, envVars>>

\* the hours from the start of day 0 to instant t
Hours(t) == 24 * (t \div 3) + (InstantMinutes[(t % 3) + 1] \div 60)

\* GuestPIN.CanRegenerate: the flag is set and valid_from is at least 24
\* hours away
CanRegenerate(pin, t) ==
    IF ~pin.regen THEN FALSE ELSE Hours(pin.from) - Hours(t) >= 24

\* handlers.RegenerateGuestPin: refused unless the row's
\* regeneration_eligible is set; the code becomes the placeholder and the
\* method date_based
RegenerateGuestPin(p) ==
    /\ guestPins[p].status # "none"
    /\ guestPins[p].regen
    /\ guestPins' = [guestPins EXCEPT ![p].code = "0000", ![p].method = "date_based"]
    /\ UNCHANGED <<calVars, pureVars, reqVars, pinStates, staticPins, gpl, spl, locks, writerVars,
                   worldVars, envVars>>

\* the slot numbers a request may carry
SlotRequests == {0, 1, 2}

\* handlers.CreateStaticPin: a slot number <= 0 becomes 1; the slot must be
\* free among the static assignments (of any lock); the PIN is assigned to
\* every managed lock with that slot
CreateStaticPin(s, pinCode, slotNumber, alwaysActive, schedules) ==
    LET slot == IF slotNumber <= 0 THEN 1 ELSE slotNumber
    IN  /\ staticPins[s] = NoStatic
        /\ ~\E k \in DOMAIN spl : spl[k].sync # "none" /\ spl[k].slot = slot
        /\ staticPins' = [staticPins EXCEPT ![s] =
                             [code |-> pinCode, enabled |-> TRUE, always |-> alwaysActive,
                              slot |-> slot, schedules |-> schedules]]
        /\ spl' = [k \in DOMAIN spl |->
                      IF k[1] = s /\ k[2] \in locks
                      THEN [slot |-> slot, sync |-> "pending", err |-> <<>>]
                      ELSE spl[k]]
        /\ UNCHANGED <<calVars, pureVars, reqVars, pinStates, guestPins, gpl, locks, writerVars, worldVars, envVars>>

\* handlers.UpdateStaticPin with a slot number in the request: the new slot
\* must be free among the other static PINs' assignments; the PIN's
\* assignments take it and become pending
UpdateStaticPin(s, slotNumber) ==
    LET newSlot == IF slotNumber <= 0 THEN 1 ELSE slotNumber
    IN  /\ staticPins[s] # NoStatic
        /\ ~\E k \in DOMAIN spl : spl[k].sync # "none" /\ spl[k].slot = newSlot /\ k[1] # s
        /\ staticPins' = [staticPins EXCEPT ![s].slot = newSlot]
        /\ spl' = [k \in DOMAIN spl |->
                      IF k[1] = s /\ spl[k].sync # "none"
                      THEN [spl[k] EXCEPT !.slot = newSlot, !.sync = "pending"]
                      ELSE spl[k]]
        /\ UNCHANGED <<calVars, pureVars, reqVars, pinStates, guestPins, gpl, locks, writerVars, worldVars, envVars>>

(***************************************************************************)
(* Spec: the PIN lifecycle engine as the server runs it on its own, for    *)
(* a calendar whose feed holds one booking: the calendar sync, the         *)
(* periodic loops and the lock writer. Nothing calls FlushNow; batches are *)
(* drained by the batch timer.                                             *)
(***************************************************************************)
EmptyStore ==
    /\ guestPins = [e \in Events |-> NoPin]
    /\ staticPins = [s \in StaticIds |-> NoStatic]
    /\ gpl = [k \in Events \X Locks |-> NoRow]
    /\ spl = [k \in StaticIds \X Locks |-> NoRow]
    /\ locks = Locks

IdleWriter ==
    /\ pendingOps = NoOps
    /\ batchTimer = 0
    /\ dpc = [d \in Drains |-> "unused"]
    /\ dops = [d \in Drains |-> NoOps]
    /\ dcur = [d \in Drains |-> NoLock]
    /\ dnodes = [d \in Drains |-> {}]
    /\ lockSlots = [l \in Locks |-> [n \in 1..2 |-> ""]]
    /\ wire = [l \in Locks |-> <<>>]
    /\ enq = <<>>
    /\ pinStates = [s \in StaticIds |-> FALSE]
    /\ IdleCalendar
    /\ NoCall

Init ==
    /\ now = 0
    /\ feed = [e \in Events |-> IF e = "e1" THEN <<0, 1>> ELSE NoStay]
    /\ EmptyStore
    /\ IdleWriter

Next ==
    \/ Tick
    \/ \E e \in Events, stay \in Stays : Reschedule(e, stay)
    \/ \E e \in Events : Cancel(e)
    \/ SyncCalendarPINs
    \/ activatePendingPINs
    \/ expireOldPINs
    \/ UpdatePINStatuses
    \/ syncPendingOperations
    \/ \E t \in Timers : TimerFires(t)
    \/ \E t \in Timers : FlushTake(t)
    \/ \E t \in Timers : FlushExec(t)

Spec == Init /\ [][Next]_vars

\* the engine with its schedulers running: every periodic job runs again
\* and again, an armed timer fires, a started flushBatch goes on; nothing
\* is assumed of the feed
Fairness ==
    /\ WF_vars(Tick)
    /\ WF_vars(SyncCalendarPINs)
    /\ WF_vars(activatePendingPINs)
    /\ WF_vars(expireOldPINs)
    /\ WF_vars(UpdatePINStatuses)
    /\ WF_vars(syncPendingOperations)
    /\ \A t \in Timers : WF_vars(TimerFires(t))
    /\ \A t \in Timers : WF_vars(FlushTake(t))
    /\ \A t \in Timers : WF_vars(FlushExec(t))

LiveSpec == Init /\ [][Next]_vars /\ Fairness

(***************************************************************************)
(* StoreSpec: the writes to the store by the calendar sync of a feed with  *)
(* two bookings, by the status job and by the API handlers. The lock       *)
(* writer is left idle: the status changes of the status scheduler's two   *)
(* jobs are those of UpdatePINStatuses.                                    *)
(***************************************************************************)
StoreInit ==
    /\ now = 0
    /\ feed = [e \in Events |-> NoStay]
    /\ EmptyStore
    /\ IdleWriter

StoreNext ==
    \/ Tick
    \/ \E e \in Events, stay \in Stays : Publish(e, stay)
    \/ \E e \in Events, stay \in Stays : Reschedule(e, stay)
    \/ \E e \in Events : Cancel(e)
    \/ SyncCalendarPINs
    \/ UpdatePINStatuses
    \/ \E p \in Events, status \in {"pending", "active", "expired"} : UpdateGuestPin(p, status)
    \/ \E p \in Events : RegenerateGuestPin(p)
    \/ \E s \in StaticIds, slot \in SlotRequests : CreateStaticPin(s, "9999", slot, TRUE, {})
    \/ \E s \in StaticIds, slot \in SlotRequests : UpdateStaticPin(s, slot)

StoreSpec == StoreInit /\ [][StoreNext]_vars

(***************************************************************************)
(* SyncSpec: the calendar sync on its own, with the calendar's row and the *)
(* result it returns: a feed of up to two bookings that appear, change     *)
(* their dates and are cancelled, a fetch that may fail, and the status    *)
(* job.                                                                    *)
(***************************************************************************)
SyncNext ==
    \/ Tick
    \/ \E e \in Events, stay \in Stays : Publish(e, stay)
    \/ \E e \in Events, stay \in Stays : Reschedule(e, stay)
    \/ \E e \in Events : Cancel(e)
    \/ SyncCalendar
    \/ UpdatePINStatuses

SyncSpec == StoreInit /\ [][SyncNext]_vars

(***************************************************************************)
(* DateChangeSpec: the sync of a feed whose bookings change their dates,   *)
(* and the handler that gives a guest PIN a custom code.                   *)
(***************************************************************************)
DateChangeNext ==
    \/ Tick
    \/ \E e \in Events, stay \in Stays : Publish(e, stay)
    \/ \E e \in Events, stay \in Stays : Reschedule(e, stay)
    \/ \E p \in Events : UpdateGuestPinCustom(p, "4321")
    \/ SyncCalendar

DateChangeSpec == StoreInit /\ [][DateChangeNext]_vars

(***************************************************************************)
(* StaticSpec: static PINs created through the API, the static PIN         *)
(* scheduler's evaluation of their schedules, the 30-second drain and the  *)
(* lock writer.                                                            *)
(***************************************************************************)
\* the schedules a created static PIN may carry: none, or 11:00 to 15:00 of
\* day 0
ScheduleChoices == {{}, {StaticPINSchedule(0, Format1504(660), Format1504(900))}}

StaticNext ==
    \/ Tick
    \/ \E s \in StaticIds, slot \in SlotRequests, always \in BOOLEAN,
          schedules \in ScheduleChoices :
            CreateStaticPin(s, "9999", slot, always, schedules)
    \/ \E s \in StaticIds : activatePin(s)
    \/ \E s \in StaticIds : deactivatePin(s)
    \/ syncPendingOperations
    \/ \E t \in Timers : TimerFires(t)
    \/ \E t \in Timers : FlushTake(t)
    \/ \E t \in Timers : FlushExec(t)

\* an empty store with one managed lock
StaticInit ==
    /\ now = 0
    /\ feed = [e \in Events |-> NoStay]
    /\ guestPins = [e \in Events |-> NoPin]
    /\ staticPins = [s \in StaticIds |-> NoStatic]
    /\ gpl = [k \in Events \X Locks |-> NoRow]
    /\ spl = [k \in StaticIds \X Locks |-> NoRow]
    /\ locks = {"L2"}
    /\ IdleWriter

StaticSpec == StaticInit /\ [][StaticNext]_vars

(***************************************************************************)
(* ScheduleSpec: the two functions that answer whether a static PIN should *)
(* be on the locks, applied to a PIN, a local weekday and a minute of the  *)
(* day.                                                                    *)
(***************************************************************************)
\* schedules of the inputs: 22:00 to 06:00 and 09:00 to 17:00 of day 5, the
\* whole of day 6
InputSchedules ==
    {StaticPINSchedule(5, Format1504(1320), Format1504(360)),
     StaticPINSchedule(5, Format1504(540), Format1504(1020)),
     StaticPINSchedule(6, Format1504(0), Format1504(1439))}
InputWeekdays == {4, 5, 6}
\* 00:00, 05:59, 06:00, 06:01, 09:00, 17:00, 17:01, 22:00, 23:59
InputMinutes == {0, 359, 360, 361, 540, 1020, 1021, 1320, 1439}

ScheduleInit ==
    /\ now = 0
    /\ feed = [e \in Events |-> NoStay]
    /\ EmptyStore
    /\ pendingOps = NoOps
    /\ batchTimer = 0
    /\ dpc = [d \in Drains |-> "unused"]
    /\ dops = [d \in Drains |-> NoOps]
    /\ dcur = [d \in Drains |-> NoLock]
    /\ dnodes = [d \in Drains |-> {}]
    /\ lockSlots = [l \in Locks |-> [n \in 1..2 |-> ""]]
    /\ wire = [l \in Locks |-> <<>>]
    /\ enq = <<>>
    /\ pinStates = [s \in StaticIds |-> FALSE]
    /\ IdleCalendar
    /\ ret = NoRet
    /\ \E enabled, always \in BOOLEAN, schedules \in SUBSET InputSchedules,
          weekday \in InputWeekdays, minute \in InputMinutes :
            args = [pin |-> [code |-> "9999", enabled |-> enabled, always |-> always,
                             slot |-> 1, schedules |-> schedules],
                    weekday |-> weekday, minute |-> minute]

\* ScheduleEvaluator.IsStaticPINActive(pin, at)
ApplyIsStaticPINActive ==
    /\ ret = NoRet
    /\ ret' = [fn |-> "IsStaticPINActive",
               value |-> IsStaticPINActive(args.pin, args.weekday,
                                           Format1504(args.minute))]
    /\ UNCHANGED <<args, reqVars, calVars, pinStates, storeVars, writerVars, worldVars, envVars>>

\* StaticPINWithSchedules.IsActiveAt(t)
ApplyIsActiveAt ==
    /\ ret = NoRet
    /\ ret' = [fn |-> "IsActiveAt",
               value |-> IsActiveAt(args.pin, args.weekday, Format1504(args.minute))]
    /\ UNCHANGED <<args, reqVars, calVars, pinStates, storeVars, writerVars, worldVars, envVars>>

ScheduleNext ==
    \/ ApplyIsStaticPINActive
    \/ ApplyIsActiveAt

ScheduleSpec == ScheduleInit /\ [][ScheduleNext]_vars

(***************************************************************************)
(* SchedulerSpec: calendar.Scheduler and the cron it drives, minute by     *)
(* minute from Start: the sync job of the calendar and the job that        *)
(* refreshes the schedules. The job that updates the PIN statuses every    *)
(* minute touches neither the entries nor the calendar and is left out.    *)
(***************************************************************************)
\* sync_interval_min of the calendar (the schema asks for 5 or more)
InputIntervals == {5, 10, 15}

\* the period of the refresh job: "@every 5m"
RefreshMinutes == 5

\* minutesToCronSpec: the delay of the "@every" spec, in minutes
minutesToCronSpec(minutes) == IF minutes <= 0 THEN 15 ELSE minutes

\* Scheduler.UnscheduleCalendar: the entry the map has for the calendar is
\* removed from the cron and from the map; entries counts the cron's entries
\* that sync the calendar
UnscheduleCalendar(c) ==
    IF c.job # NoEntry THEN [c EXCEPT !.job = NoEntry, !.entries = @ - 1] ELSE c

\* Scheduler.ScheduleCalendar: a disabled calendar is unscheduled; otherwise
\* the entry the calendar has is removed and a new "@every" entry is added,
\* whose first run the cron puts one delay after the moment it is added
ScheduleCalendar(c, cal) ==
    IF ~cal.enabled THEN UnscheduleCalendar(c)
    ELSE [UnscheduleCalendar(c) EXCEPT
            !.job = c.time + minutesToCronSpec(cal.sync_interval_min),
            !.entries = @ + 1]

\* Scheduler.refreshSchedules: every enabled calendar is scheduled again,
\* the entries of the others are removed
refreshSchedules(c, cal) ==
    IF cal.enabled THEN ScheduleCalendar(c, cal) ELSE UnscheduleCalendar(c)

\* Scheduler.Start: the enabled calendars are scheduled, the refresh job is
\* added and the cron starts
SchedulerStart ==
    /\ cron.refresh = NoEntry
    /\ cron' = [(IF calendar.enabled THEN ScheduleCalendar(cron, calendar) ELSE cron)
                    EXCEPT !.refresh = cron.time + RefreshMinutes]
    /\ UNCHANGED <<calendar, result, pureVars, reqVars, pinStates, storeVars, writerVars, worldVars,
                   envVars>>

\* the cron's loop, one minute later: every entry that is due is started
\* and gets its next run; the sync job runs SyncCalendar, the refresh job
\* refreshSchedules, whose removals and additions the loop takes after it
\* has started the due entries
CronRun ==
    /\ cron.refresh # NoEntry
    /\ cron.time < MaxMinute
    /\ LET t == cron.time + 1
           syncDue == cron.job # NoEntry /\ cron.job <= t
           refreshDue == cron.refresh <= t
           ran == [cron EXCEPT
                     !.time = t,
                     !.job = IF syncDue
                             THEN t + minutesToCronSpec(calendar.sync_interval_min) ELSE @,
                     !.lastSync = IF syncDue THEN t ELSE @,
                     !.refresh = IF refreshDue THEN t + RefreshMinutes ELSE @]
       IN  /\ cron' = IF refreshDue THEN refreshSchedules(ran, calendar) ELSE ran
           /\ IF syncDue
              THEN \E fetchOk \in BOOLEAN : SyncCalendarWrites(fetchOk)
              ELSE UNCHANGED <<calendar, result, guestPins, gpl>>
    /\ UNCHANGED <<pureVars, reqVars, pinStates, staticPins, spl, locks, writerVars, worldVars,
                   envVars>>

SchedulerInit ==
    /\ now = 0
    /\ \E stay \in Stays \cup {NoStay} :
          feed = [e \in Events |-> IF e = "e1" THEN stay ELSE NoStay]
    /\ EmptyStore
    /\ pendingOps = NoOps
    /\ batchTimer = 0
    /\ dpc = [d \in Drains |-> "unused"]
    /\ dops = [d \in Drains |-> NoOps]
    /\ dcur = [d \in Drains |-> NoLock]
    /\ dnodes = [d \in Drains |-> {}]
    /\ lockSlots = [l \in Locks |-> [n \in 1..2 |-> ""]]
    /\ wire = [l \in Locks |-> <<>>]
    /\ enq = <<>>
    /\ pinStates = [s \in StaticIds |-> FALSE]
    /\ NoCall
    /\ \E enabled \in BOOLEAN, syncIntervalMin \in InputIntervals :
          calendar = NewCalendar(enabled, syncIntervalMin)
    /\ result = NoResult
    /\ cron = NoCron
    /\ NoRequests

SchedulerNext ==
    \/ SchedulerStart
    \/ CronRun

SchedulerSpec == SchedulerInit /\ [][SchedulerNext]_vars

(***************************************************************************)
(* JobMapSpec: the scheduler's map of jobs while the refresh job and the   *)
(* calendar handlers run side by side. ScheduleCalendar and                *)
(* UnscheduleCalendar hold jobsMu from their first statement to their      *)
(* last and are one step each; refreshSchedules lists the enabled          *)
(* calendars, schedules each of them, then takes jobsMu for its removals.  *)
(***************************************************************************)
\* no row of calendar_subscriptions: the calendar was deleted
NoCalendar == [NewCalendar(FALSE, 0) EXCEPT !.sync_status = "none"]

\* refreshSchedules, ListEnabled: the row as it is read now
RefreshList(r) ==
    /\ requests[r] = NoRequest
    /\ \A s \in ReqIds : requests[s].op # "refreshSchedules"
    /\ requests' = [requests EXCEPT ![r] =
                      [op |-> "refreshSchedules", pc |-> "schedule", cal |-> calendar]]
    /\ UNCHANGED <<tables, calVars, pureVars, pinStates, storeVars, writerVars, worldVars,
                   envVars>>

\* refreshSchedules, first loop: ScheduleCalendar for every calendar read
RefreshSchedule(r) ==
    /\ requests[r].op = "refreshSchedules" /\ requests[r].pc = "schedule"
    /\ cron' = IF requests[r].cal.enabled THEN ScheduleCalendar(cron, requests[r].cal)
               ELSE cron
    /\ requests' = [requests EXCEPT ![r].pc = "remove"]
    /\ UNCHANGED <<tables, calendar, result, pureVars, pinStates, storeVars, writerVars,
                   worldVars, envVars>>

\* refreshSchedules, second loop: the jobs of the calendars that were not
\* read are removed
RefreshRemove(r) ==
    /\ requests[r].op = "refreshSchedules" /\ requests[r].pc = "remove"
    /\ cron' = IF ~requests[r].cal.enabled THEN UnscheduleCalendar(cron) ELSE cron
    /\ requests' = [requests EXCEPT ![r] = NoRequest]
    /\ UNCHANGED <<tables, calendar, result, pureVars, pinStates, storeVars, writerVars,
                   worldVars, envVars>>

\* handlers.UpdateCalendar, the UPDATE of the row
UpdateCalendarRow(r, enabled, syncIntervalMin) ==
    /\ requests[r] = NoRequest
    /\ calendar # NoCalendar
    /\ calendar' = [calendar EXCEPT !.enabled = enabled,
                                    !.sync_interval_min = syncIntervalMin]
    /\ requests' = [requests EXCEPT ![r] =
                      [op |-> "UpdateCalendar", pc |-> "schedule", cal |-> calendar']]
    /\ UNCHANGED <<tables, result, cron, pureVars, pinStates, storeVars, writerVars,
                   worldVars, envVars>>

\* handlers.UpdateCalendar, scheduler.ScheduleCalendar with the request's
\* values
UpdateCalendarSchedule(r) ==
    /\ requests[r].op = "UpdateCalendar" /\ requests[r].pc = "schedule"
    /\ cron' = ScheduleCalendar(cron, requests[r].cal)
    /\ requests' = [requests EXCEPT ![r] = NoRequest]
    /\ UNCHANGED <<tables, calendar, result, pureVars, pinStates, storeVars, writerVars,
                   worldVars, envVars>>

\* handlers.DeleteCalendar, the DELETE of the row
DeleteCalendarRow(r) ==
    /\ requests[r] = NoRequest
    /\ calendar # NoCalendar
    /\ calendar' = NoCalendar
    /\ requests' = [requests EXCEPT ![r] =
                      [op |-> "DeleteCalendar", pc |-> "unschedule", cal |-> NoCalendar]]
    /\ UNCHANGED <<tables, result, cron, pureVars, pinStates, storeVars, writerVars,
                   worldVars, envVars>>

\* handlers.DeleteCalendar, scheduler.UnscheduleCalendar
DeleteCalendarUnschedule(r) ==
    /\ requests[r].op = "DeleteCalendar" /\ requests[r].pc = "unschedule"
    /\ cron' = UnscheduleCalendar(cron)
    /\ requests' = [requests EXCEPT ![r] = NoRequest]
    /\ UNCHANGED <<tables, calendar, result, pureVars, pinStates, storeVars, writerVars,
                   worldVars, envVars>>

\* after Scheduler.Start
JobMapInit ==
    /\ now = 0
    /\ feed = [e \in Events |-> NoStay]
    /\ EmptyStore
    /\ pendingOps = NoOps
    /\ batchTimer = 0
    /\ dpc = [d \in Drains |-> "unused"]
    /\ dops = [d \in Drains |-> NoOps]
    /\ dcur = [d \in Drains |-> NoLock]
    /\ dnodes = [d \in Drains |-> {}]
    /\ lockSlots = [l \in Locks |-> [n \in 1..2 |-> ""]]
    /\ wire = [l \in Locks |-> <<>>]
    /\ enq = <<>>
    /\ pinStates = [s \in StaticIds |-> FALSE]
    /\ NoCall
    /\ \E enabled \in BOOLEAN, syncIntervalMin \in InputIntervals :
          /\ calendar = NewCalendar(enabled, syncIntervalMin)
          /\ cron = [ScheduleCalendar(NoCron, calendar) EXCEPT !.refresh = RefreshMinutes]
    /\ result = NoResult
    /\ NoRequests

JobMapNext ==
    \/ \E r \in ReqIds : RefreshList(r)
    \/ \E r \in ReqIds : RefreshSchedule(r)
    \/ \E r \in ReqIds : RefreshRemove(r)
    \/ \E r \in ReqIds, enabled \in BOOLEAN, syncIntervalMin \in InputIntervals :
          UpdateCalendarRow(r, enabled, syncIntervalMin)
    \/ \E r \in ReqIds : UpdateCalendarSchedule(r)
    \/ \E r \in ReqIds : DeleteCalendarRow(r)
    \/ \E r \in ReqIds : DeleteCalendarUnschedule(r)

JobMapSpec == JobMapInit /\ [][JobMapNext]_vars

(***************************************************************************)
(* MappingsSpec: handlers.UpdateCalendarLocks replacing the rows of        *)
(* calendar_lock_mappings of the calendar, statement by statement, while   *)
(* a sync reads them with GetLockIDs. CalendarRepository.SetLockIDs, which *)
(* does the same inside DB.Transaction, has no caller.                     *)
(***************************************************************************)
\* the lock_ids of the request's body; L9 is no row of managed_locks
InputLockIDs == {<<>>, <<"L2">>, <<"L2", "L1">>, <<"L2", "L9">>, <<"L9", "L2">>,
                 <<"L2", "L2">>}

\* the mappings next to the tables of the requests
MappingTables(mappings) == [calendar_lock_mappings |-> mappings] @@ EmptyTables

\* UpdateCalendarLocks: the body is decoded and the DELETE is executed on
\* the database, outside any transaction
UpdateCalendarLocksDelete(r, lockIDs) ==
    /\ requests[r] = NoRequest
    /\ \A s \in ReqIds : requests[s].op # "UpdateCalendarLocks"
    /\ tables' = [tables EXCEPT !.calendar_lock_mappings = {}]
    /\ requests' = [requests EXCEPT ![r] =
                      [op |-> "UpdateCalendarLocks", pc |-> "insert", lockIDs |-> lockIDs,
                       requested |-> lockIDs, previous |-> tables.calendar_lock_mappings,
                       failed |-> FALSE]]
    /\ UNCHANGED <<calVars, pureVars, pinStates, storeVars, writerVars, worldVars, envVars>>

\* the INSERT fails on a lock_id that is no managed lock (the foreign key)
\* and on a row that is there already (the primary key)
InsertFails(mappings, lockId) == lockId \notin locks \/ lockId \in mappings

\* UpdateCalendarLocks, one pass of the loop: the INSERT, whose error is
\* skipped with continue
UpdateCalendarLocksInsert(r) ==
    /\ requests[r].op = "UpdateCalendarLocks" /\ requests[r].pc = "insert"
    /\ requests[r].lockIDs # <<>>
    /\ LET lockId == Head(requests[r].lockIDs)
           fails == InsertFails(tables.calendar_lock_mappings, lockId)
       IN  /\ tables' = IF fails THEN tables
                        ELSE [tables EXCEPT !.calendar_lock_mappings = @ \cup {lockId}]
           /\ requests' = [requests EXCEPT ![r].lockIDs = Tail(@),
                                           ![r].failed = @ \/ fails]
    /\ UNCHANGED <<calVars, pureVars, pinStates, storeVars, writerVars, worldVars, envVars>>

\* UpdateCalendarLocks, after the loop: 204 No Content
UpdateCalendarLocksRespond(r) ==
    /\ requests[r].op = "UpdateCalendarLocks" /\ requests[r].pc = "insert"
    /\ requests[r].lockIDs = <<>>
    /\ requests' = [requests EXCEPT ![r] = NoRequest]
    /\ UNCHANGED <<tables, calVars, pureVars, pinStates, storeVars, writerVars, worldVars,
                   envVars>>

\* SyncCalendar's GetLockIDs: the rows as they are now
GetLockIDs ==
    /\ ret' = [fn |-> "GetLockIDs", lockIDs |-> tables.calendar_lock_mappings]
    /\ UNCHANGED <<args, reqVars, calVars, pinStates, storeVars, writerVars, worldVars,
                   envVars>>

MappingsInit ==
    /\ now = 0
    /\ feed = [e \in Events |-> NoStay]
    /\ EmptyStore
    /\ pendingOps = NoOps
    /\ batchTimer = 0
    /\ dpc = [d \in Drains |-> "unused"]
    /\ dops = [d \in Drains |-> NoOps]
    /\ dcur = [d \in Drains |-> NoLock]
    /\ dnodes = [d \in Drains |-> {}]
    /\ lockSlots = [l \in Locks |-> [n \in 1..2 |-> ""]]
    /\ wire = [l \in Locks |-> <<>>]
    /\ enq = <<>>
    /\ pinStates = [s \in StaticIds |-> FALSE]
    /\ NoCall
    /\ calendar = NewCalendar(TRUE, 15)
    /\ result = NoResult
    /\ cron = NoCron
    /\ tables = MappingTables({CalendarLocks[i] : i \in DOMAIN CalendarLocks})
    /\ requests = [r \in ReqIds |-> NoRequest]

MappingsNext ==
    \/ \E r \in ReqIds, lockIDs \in InputLockIDs : UpdateCalendarLocksDelete(r, lockIDs)
    \/ \E r \in ReqIds : UpdateCalendarLocksInsert(r)
    \/ \E r \in ReqIds : UpdateCalendarLocksRespond(r)
    \/ GetLockIDs

MappingsSpec == MappingsInit /\ [][MappingsNext]_vars

(***************************************************************************)
(* ConcurrentSpec: two requests side by side, statement by statement: a    *)
(* sync's processEvent of a new event, and the handler that creates a      *)
(* static PIN. No handler opens a transaction, so the statements of the    *)
(* two interleave. Rows are kept by the id GenerateID gives them, which is *)
(* the request's here.                                                     *)
(***************************************************************************)
\* names of static PINs: none, two that differ in case only, another one
InputNames == {<<>>, <<"A", "n", "n">>, <<"a", "N", "N">>, <<"B", "o", "b">>}

\* SQLite's LOWER on a character
LowerChar(c) ==
    CASE c = "A" -> "a" [] c = "B" -> "b" [] c = "N" -> "n" [] OTHER -> c

\* SQLite's LOWER
Lower(name) == [i \in DOMAIN name |-> LowerChar(name[i])]

\* the other variables stay as they are
OnlyRequests ==
    UNCHANGED <<calVars, pureVars, pinStates, storeVars, writerVars, worldVars, envVars>>

Answer(r, outcome) == [requests EXCEPT ![r].pc = "done", ![r].outcome = outcome]

\* a sync comes to processEvent for the event uid
StartProcessEvent(r, uid) ==
    /\ requests[r].pc = "idle"
    /\ requests' = [requests EXCEPT ![r] =
                        [NoRequest EXCEPT !.op = "processEvent", !.pc = "get", !.uid = uid]]
    /\ UNCHANGED tables
    /\ OnlyRequests

\* processEvent, GetByEventUID: a PIN that exists (its dates are those of
\* the event) is left alone
ProcessEventGet(r) ==
    /\ requests[r].op = "processEvent" /\ requests[r].pc = "get"
    /\ requests' = IF \E row \in tables.guest_pins : row.event_uid = requests[r].uid
                   THEN Answer(r, "unchanged")
                   ELSE [requests EXCEPT ![r].pc = "create"]
    /\ UNCHANGED tables
    /\ OnlyRequests

\* an INSERT into guest_pins without UNIQUE (calendar_id, event_uid)
InsertGuestPINNoUnique(rows, row) == [ok |-> TRUE, rows |-> rows \cup {row}]

\* INSERT INTO guest_pins: UNIQUE (calendar_id, event_uid) makes the insert
\* of a second row for the event fail
InsertGuestPIN(rows, row) ==
    IF \E other \in rows : other.event_uid = row.event_uid
    THEN [ok |-> FALSE, rows |-> rows]
    ELSE [ok |-> TRUE, rows |-> rows \cup {row}]

\* processEvent, GuestPINRepository.Create: an error ends processEvent
\* before any assignment
ProcessEventCreate(r) ==
    /\ requests[r].op = "processEvent" /\ requests[r].pc = "create"
    /\ LET ins == InsertGuestPIN(tables.guest_pins, [id |-> r, event_uid |-> requests[r].uid])
       IN  /\ tables' = [tables EXCEPT !.guest_pins = ins.rows]
           /\ requests' = IF ins.ok THEN [requests EXCEPT ![r].pc = "assign"]
                          ELSE Answer(r, "error")
    /\ OnlyRequests

\* processEvent, AssignToLock for every mapped lock
ProcessEventAssign(r) ==
    /\ requests[r].op = "processEvent" /\ requests[r].pc = "assign"
    /\ tables' = [tables EXCEPT !.guest_pin_locks =
                      @ \cup {[guest_pin_id |-> r, lock_id |-> CalendarLocks[i]] :
                                  i \in DOMAIN CalendarLocks}]
    /\ requests' = Answer(r, "created")
    /\ OnlyRequests

\* POST /static-pins arrives: an empty name is refused
StartCreateStaticPin(r, name, pinCode, slotNumber) ==
    /\ requests[r].pc = "idle"
    /\ requests' = [requests EXCEPT ![r] =
                        [NoRequest EXCEPT !.op = "CreateStaticPin", !.name = name,
                                          !.code = pinCode,
                                          !.slot = IF slotNumber <= 0 THEN 1 ELSE slotNumber,
                                          !.pc = IF name = <<>> THEN "done" ELSE "check_name",
                                          !.outcome = IF name = <<>> THEN "bad_request" ELSE ""]]
    /\ UNCHANGED tables
    /\ OnlyRequests

\* CreateStaticPin, SELECT COUNT(*) ... WHERE LOWER(name) = LOWER(?)
CreateStaticPinCheckName(r) ==
    /\ requests[r].op = "CreateStaticPin" /\ requests[r].pc = "check_name"
    /\ requests' = IF \E row \in tables.static_pins : Lower(row.name) = Lower(requests[r].name)
                   THEN Answer(r, "conflict")
                   ELSE [requests EXCEPT ![r].pc = "check_slot"]
    /\ UNCHANGED tables
    /\ OnlyRequests

\* CreateStaticPin, SELECT COUNT(*) FROM static_pin_locks WHERE slot_number = ?
CreateStaticPinCheckSlot(r) ==
    /\ requests[r].op = "CreateStaticPin" /\ requests[r].pc = "check_slot"
    /\ requests' = IF \E row \in tables.static_pin_locks : row.slot_number = requests[r].slot
                   THEN Answer(r, "conflict")
                   ELSE [requests EXCEPT ![r].pc = "insert"]
    /\ UNCHANGED tables
    /\ OnlyRequests

\* CreateStaticPin, INSERT INTO static_pins: the table has no constraint on
\* the name
CreateStaticPinInsert(r) ==
    /\ requests[r].op = "CreateStaticPin" /\ requests[r].pc = "insert"
    /\ tables' = [tables EXCEPT !.static_pins =
                      @ \cup {[id |-> r, name |-> requests[r].name,
                                pin_code |-> requests[r].code]}]
    /\ requests' = [requests EXCEPT ![r].pc = "assign"]
    /\ OnlyRequests

\* CreateStaticPin, INSERT OR REPLACE INTO static_pin_locks for every
\* managed lock, and the answer 201
CreateStaticPinAssign(r) ==
    /\ requests[r].op = "CreateStaticPin" /\ requests[r].pc = "assign"
    /\ tables' = [tables EXCEPT !.static_pin_locks =
                      @ \cup {[static_pin_id |-> r, lock_id |-> l,
                                slot_number |-> requests[r].slot] : l \in locks}]
    /\ requests' = Answer(r, "created")
    /\ OnlyRequests

ConcurrentInit ==
    /\ now = 0
    /\ feed = [e \in Events |-> <<0, 1>>]
    /\ EmptyStore
    /\ IdleWriter

ConcurrentNext ==
    \/ \E r \in ReqIds, uid \in Events : StartProcessEvent(r, uid)
    \/ \E r \in ReqIds : ProcessEventGet(r)
    \/ \E r \in ReqIds : ProcessEventCreate(r)
    \/ \E r \in ReqIds : ProcessEventAssign(r)
    \/ \E r \in ReqIds, name \in InputNames, slotNumber \in SlotRequests :
          StartCreateStaticPin(r, name, "5678", slotNumber)
    \/ \E r \in ReqIds : CreateStaticPinCheckName(r)
    \/ \E r \in ReqIds : CreateStaticPinCheckSlot(r)
    \/ \E r \in ReqIds : CreateStaticPinInsert(r)
    \/ \E r \in ReqIds : CreateStaticPinAssign(r)

ConcurrentSpec == ConcurrentInit /\ [][ConcurrentNext]_vars

(***************************************************************************)
(* CrashSpec: the status scheduler and the lock writer of a process that   *)
(* can stop at any moment and be started again. The store is on disk and   *)
(* stays; the Manager's queue, its timer and every flushBatch under way    *)
(* are in memory and are gone. The calendar holds two bookings, already    *)
(* synced once; the jobs that change a status without queueing an          *)
(* operation are left out.                                                 *)
(***************************************************************************)
\* main: the process is started again on the database it left. NewManager
\* gives an empty queue and no timer, the timers and flushBatch calls of the
\* old process are gone, InitializeStates computes the static PINs' states,
\* the cron of the calendar scheduler is new and no request is under way
StartAgain ==
    /\ pendingOps' = NoOps
    /\ batchTimer' = 0
    /\ dpc' = [d \in Drains |->
                  IF dpc[d] \in {"armed", "ready", "exec"} THEN "stopped" ELSE dpc[d]]
    /\ dops' = [d \in Drains |-> NoOps]
    /\ dcur' = [d \in Drains |-> NoLock]
    /\ dnodes' = [d \in Drains |-> {}]
    /\ pinStates' = [s \in StaticIds |-> staticPins[s].enabled /\ ShouldBeActive(s)]
    /\ cron' = NoCron
    /\ requests' = [r \in ReqIds |-> NoRequest]
    /\ UNCHANGED <<calendar, result, tables, pureVars, envVars, lockSlots, wire, enq>>

\* the process stops between two jobs and is started again
Restart ==
    /\ StartAgain
    /\ UNCHANGED storeVars

\* the process stops inside activatePendingPINs, after the UpdateStatus of
\* the k-th PIN of the list and before its queueLockSync, and is started
\* again: the first k PINs are active in the store, nothing is queued
StopInActivatePendingPINs(k) ==
    LET pins == ListPendingActivation(guestPins, now)
    IN  /\ k \in 1..Len(pins)
        /\ guestPins' = UpdateStatusAll(guestPins, SubSeq(pins, 1, k), "active")
        /\ StartAgain
        /\ UNCHANGED <<staticPins, gpl, spl, locks>>

\* the same inside expireOldPINs, before the k-th PIN's queueLockClear
StopInExpireOldPINs(k) ==
    LET pins == ListExpired(guestPins, now)
    IN  /\ k \in 1..Len(pins)
        /\ guestPins' = UpdateStatusAll(guestPins, SubSeq(pins, 1, k), "expired")
        /\ StartAgain
        /\ UNCHANGED <<staticPins, gpl, spl, locks>>

\* the bookings of the calendar, and the store as their first sync left it
CrashFeed == [e \in Events |-> IF e = "e1" THEN <<0, 1>> ELSE <<0, 2>>]

CrashInit ==
    /\ now = 0
    /\ feed = CrashFeed
    /\ LET out == SyncOutcome([e \in Events |-> NoPin],
                              [k \in Events \X Locks |-> NoRow], CrashFeed, 0)
       IN  /\ guestPins = out.pins
           /\ gpl = out.rows
    /\ staticPins = [s \in StaticIds |-> NoStatic]
    /\ spl = [k \in StaticIds \X Locks |-> NoRow]
    /\ locks = Locks
    /\ IdleWriter

CrashNext ==
    \/ Tick
    \/ activatePendingPINs
    \/ expireOldPINs
    \/ syncPendingOperations
    \/ \E t \in Timers : TimerFires(t)
    \/ \E t \in Timers : FlushTake(t)
    \/ \E t \in Timers : FlushExec(t)
    \/ Restart
    \/ \E k \in 1..2 : StopInActivatePendingPINs(k)
    \/ \E k \in 1..2 : StopInExpireOldPINs(k)

CrashSpec == CrashInit /\ [][CrashNext]_vars

(***************************************************************************)
(* ClobberSpec: processEvent for a booking whose dates changed, statement  *)
(* by statement (GetByEventUID, then Update), beside the status            *)
(* scheduler's two jobs. One booking, synced once.                         *)
(***************************************************************************)
\* processEvent, lines 121-147: GetByEventUID reads the whole row; when the
\* dates differ the struct gets the new window and, for date_based, the new
\* code. The struct is what Update will write.
ProcessEventRead(r, e) ==
    LET validFrom == applyCheckinTime(EventStart(feed[e]))
        validUntil == applyCheckoutTime(EventEnd(feed[e]))
        existing == guestPins[e]
    IN  /\ requests[r].pc = "idle"
        /\ e \in FilterFutureEvents(feed, now)
        /\ existing.status # "none"
        /\ existing.from # validFrom \/ existing.until # validUntil
        /\ requests' = [requests EXCEPT ![r] =
                            [op |-> "processEvent", pc |-> "update", uid |-> e,
                             existing |-> [existing EXCEPT
                                              !.from = validFrom, !.until = validUntil,
                                              !.code = IF existing.method = "date_based"
                                                       THEN EventCode(feed[e]) ELSE @]]]
        /\ UNCHANGED tables
        /\ OnlyRequests

\* GuestPINRepository.Update: every column of the row is written from the
\* struct, the status among them
Update(pins, id, pin) ==
    [pins EXCEPT ![id] = pin]

\* processEvent, lines 148-150: Update writes the struct
ProcessEventUpdate(r) ==
    /\ requests[r].op = "processEvent" /\ requests[r].pc = "update"
    /\ guestPins' = Update(guestPins, requests[r].uid, requests[r].existing)
    /\ requests' = [requests EXCEPT ![r] = NoRequest]
    /\ UNCHANGED <<tables, calVars, pureVars, pinStates, staticPins, gpl, spl, locks,
                   writerVars, worldVars, envVars>>

ClobberFeed == [e \in Events |-> IF e = "e1" THEN <<0, 1>> ELSE NoStay]

ClobberInit ==
    /\ now = 0
    /\ feed = ClobberFeed
    /\ LET out == SyncOutcome([e \in Events |-> NoPin],
                              [k \in Events \X Locks |-> NoRow], ClobberFeed, 0)
       IN  /\ guestPins = out.pins
           /\ gpl = out.rows
    /\ staticPins = [s \in StaticIds |-> NoStatic]
    /\ spl = [k \in StaticIds \X Locks |-> NoRow]
    /\ locks = Locks
    /\ IdleWriter

ClobberNext ==
    \/ Tick
    \/ \E stay \in Stays : Reschedule("e1", stay)
    \/ \E r \in ReqIds : ProcessEventRead(r, "e1")
    \/ \E r \in ReqIds : ProcessEventUpdate(r)
    \/ activatePendingPINs
    \/ expireOldPINs

ClobberSpec == ClobberInit /\ [][ClobberNext]_vars

(***************************************************************************)
(* ConflictSpec: GuestPINRepository.FindConflicts and                      *)
(* ConflictChecker.FindAlternativePIN applied to a store of two guest PINs *)
(* with codes, windows and statuses drawn from the sets below.             *)
(***************************************************************************)
\* codes of the stored PINs: the neighbours that incrementing reaches, and
\* the last code of four digits
InputCodes == {"0102", "0103", "9999"}
\* windows of the stored PINs, as instants
InputWindows == {w \in (0..2) \X (1..3) : w[1] < w[2]}
InputStatuses == {"pending", "active", "expired", "conflict"}

\* FindConflicts with <= and >=: windows that only touch are returned too
FindConflictsTouching(pins, pinCode, validFrom, validUntil, excludeID) ==
    {e \in Events :
        /\ pins[e].status # "none"
        /\ pins[e].code = pinCode
        /\ e # excludeID
        /\ pins[e].from <= validUntil
        /\ pins[e].until >= validFrom
        /\ pins[e].status \notin {"expired", "conflict"}}

\* GuestPINRepository.FindConflicts: the rows with that code, another id, a
\* window that overlaps the given one and a status that is neither expired
\* nor conflict
FindConflicts(pins, pinCode, validFrom, validUntil, excludeID) ==
    {e \in Events :
        /\ pins[e].status # "none"
        /\ pins[e].code = pinCode
        /\ e # excludeID
        /\ pins[e].from < validUntil
        /\ pins[e].until > validFrom
        /\ pins[e].status \notin {"expired", "conflict"}}

\* FindConflicts asked, for each stored PIN, with that PIN's code and window
\* and its id excluded
ApplyFindConflicts ==
    /\ args' = [fn |-> "FindConflicts"]
    /\ ret' = [fn |-> "FindConflicts",
               found |-> [e \in Events |->
                             FindConflicts(guestPins, guestPins[e].code, guestPins[e].from,
                                           guestPins[e].until, e)]]
    /\ UNCHANGED <<calVars, reqVars, pinStates, storeVars, writerVars, worldVars, envVars>>

ConflictInit ==
    /\ now = 0
    /\ feed = [e \in Events |-> NoStay]
    /\ guestPins \in [Events -> {[code |-> c, from |-> w[1], until |-> w[2], status |-> st,
                                  method |-> "date_based", regen |-> TRUE] :
                                     c \in InputCodes, w \in InputWindows,
                                     st \in InputStatuses}]
    /\ staticPins = [s \in StaticIds |-> NoStatic]
    /\ gpl = [k \in Events \X Locks |-> NoRow]
    /\ spl = [k \in StaticIds \X Locks |-> NoRow]
    /\ locks = Locks
    /\ IdleWriter

ConflictNext ==
    \/ ApplyFindConflicts

ConflictSpec == ConflictInit /\ [][ConflictNext]_vars

(***************************************************************************)
(* AlternativeSpec: ConflictChecker.FindAlternativePIN applied to codes,   *)
(* windows and attempt counts drawn from the sets below, over a store of   *)
(* two guest PINs; a lookup of conflicts may fail.                         *)
(***************************************************************************)
\* the value of a decimal digit: int(c - '0')
DigitValue(c) == CHOOSE n \in 0..9 : Digit(n) = c

\* incrementPIN's loop: num = num*10 + int(c-'0') over the characters
RECURSIVE ParseDigits(_, _)
ParseDigits(pin, num) ==
    IF pin = <<>> THEN num ELSE ParseDigits(Tail(pin), num * 10 + DigitValue(Head(pin)))

\* incrementPIN: the number plus the increment, modulo 10^len, printed with
\* len digits
incrementPIN(pin, increment) ==
    SprintfZero(Len(pin), (ParseDigits(pin, 0) + increment) % pow10(Len(pin)))

ErrNoAlternative == "could not find alternative PIN"
ErrLookup == "checking conflicts"

\* the loop of FindAlternativePIN from iteration i on; the lookup of
\* iteration failAt fails (0: none does)
RECURSIVE TryAlternatives(_, _, _, _, _, _, _)
TryAlternatives(pins, originalPIN, validFrom, validUntil, maxAttempts, failAt, i) ==
    LET pinLen == IF Len(originalPIN) < 4 THEN 4 ELSE Len(originalPIN)
        incremented == incrementPIN(originalPIN, i + 1)
        modified == IF Len(incremented) > pinLen
                    THEN SubSeq(incremented, Len(incremented) - pinLen + 1, Len(incremented))
                    ELSE incremented
    IN  IF i >= maxAttempts THEN [code |-> "", err |-> ErrNoAlternative]
        ELSE IF failAt = i + 1 THEN [code |-> "", err |-> ErrLookup]
        ELSE IF FindConflicts(pins, Text(modified), validFrom, validUntil, "") # {}
        THEN TryAlternatives(pins, originalPIN, validFrom, validUntil, maxAttempts, failAt,
                             i + 1)
        ELSE [code |-> Text(modified), err |-> ""]

\* a FindAlternativePIN that starts with the original code itself
FindAlternativePINFromOriginal(pins, originalPIN, validFrom, validUntil, maxAttempts, failAt) ==
    TryAlternatives(pins, originalPIN, validFrom, validUntil,
                    (IF maxAttempts <= 0 THEN 10 ELSE maxAttempts) - 1, failAt, -1)

\* ConflictChecker.FindAlternativePIN (HasConflict is CheckConflicts over
\* FindConflicts with no id excluded)
FindAlternativePIN(pins, originalPIN, validFrom, validUntil, maxAttempts, failAt) ==
    TryAlternatives(pins, originalPIN, validFrom, validUntil,
                    IF maxAttempts <= 0 THEN 10 ELSE maxAttempts, failAt, 0)

InputOriginals == {<<"0", "1", "0", "1">>, <<"9", "9", "9", "8">>, <<"9", "9">>}
InputAttempts == {-1, 0, 2}
InputFailures == {0, 1, 2}
AlternativeWindows == {<<0, 1>>, <<2, 3>>}
AlternativeCodes == {"0102", "0103", "9999", "00"}

ApplyFindAlternativePIN ==
    /\ ret = NoRet
    /\ \E originalPIN \in InputOriginals, w \in AlternativeWindows,
          maxAttempts \in InputAttempts, failAt \in InputFailures :
          /\ args' = [fn |-> "FindAlternativePIN", originalPIN |-> originalPIN,
                      validFrom |-> w[1], validUntil |-> w[2],
                      maxAttempts |-> maxAttempts, failAt |-> failAt]
          /\ ret' = [fn |-> "FindAlternativePIN"] @@
                    FindAlternativePIN(guestPins, originalPIN, w[1], w[2], maxAttempts,
                                       failAt)
    /\ UNCHANGED <<calVars, reqVars, pinStates, storeVars, writerVars, worldVars, envVars>>

AlternativeInit ==
    /\ now = 0
    /\ feed = [e \in Events |-> NoStay]
    /\ guestPins \in [Events -> {[code |-> c, from |-> w[1], until |-> w[2], status |-> st,
                                  method |-> "date_based", regen |-> TRUE] :
                                     c \in AlternativeCodes, w \in AlternativeWindows,
                                     st \in {"active", "expired"}}]
    /\ staticPins = [s \in StaticIds |-> NoStatic]
    /\ gpl = [k \in Events \X Locks |-> NoRow]
    /\ spl = [k \in StaticIds \X Locks |-> NoRow]
    /\ locks = Locks
    /\ IdleWriter

AlternativeNext ==
    \/ ApplyFindAlternativePIN

AlternativeSpec == AlternativeInit /\ [][AlternativeNext]_vars

(***************************************************************************)
(* EvaluatorSpec: the static PIN scheduler's evaluation and the lock       *)
(* writer. s1 is scheduled for the morning of day 1 and assigned to L2; s2 *)
(* is always active and assigned to both locks.                            *)
(***************************************************************************)
\* the store and the idle writer of a process whose scheduler starts
EvaluatorStore ==
    /\ feed = [e \in Events |-> NoStay]
    /\ guestPins = [e \in Events |-> NoPin]
    /\ gpl = [k \in Events \X Locks |-> NoRow]
    /\ staticPins = [s \in StaticIds |->
                        IF s = "s1"
                        THEN [code |-> "9999", enabled |-> TRUE, always |-> FALSE, slot |-> 2,
                              schedules |-> {StaticPINSchedule(1, Format1504(0),
                                                               Format1504(660))}]
                        ELSE [code |-> "5678", enabled |-> TRUE, always |-> TRUE, slot |-> 1,
                              schedules |-> {}]]
    /\ spl = [k \in StaticIds \X Locks |->
                 IF k = <<"s1", "L2">> THEN [slot |-> 2, sync |-> "pending", err |-> <<>>]
                 ELSE IF k[1] = "s2" THEN [slot |-> 1, sync |-> "pending", err |-> <<>>]
                 ELSE NoRow]
    /\ locks = Locks
    /\ IdleWriter

EvaluatorInit ==
    /\ now = 0
    /\ EvaluatorStore

EvaluatorNext ==
    \/ Tick
    \/ \E s \in StaticIds : activatePin(s)
    \/ \E s \in StaticIds : deactivatePin(s)
    \/ \E t \in Timers : TimerFires(t)
    \/ \E t \in Timers : FlushTake(t)
    \/ \E t \in Timers : FlushExec(t)

EvaluatorSpec == EvaluatorInit /\ [][EvaluatorNext]_vars

(***************************************************************************)
(* DisableSpec: one static PIN scheduled for the first day until 15:00,    *)
(* with an assignment on L2; the static PIN scheduler, the 30-second drain *)
(* of pending assignments and the handlers that disable, enable and delete *)
(* the PIN.                                                                *)
(***************************************************************************)
\* handlers.UpdateStaticPin with enabled in the request and nothing else:
\* the UPDATE of the row; no assignment is touched, nothing is queued
UpdateStaticPinEnabled(s, enabled) ==
    /\ staticPins[s] # NoStatic
    /\ staticPins' = [staticPins EXCEPT ![s].enabled = enabled]
    /\ UNCHANGED <<calVars, pureVars, reqVars, pinStates, guestPins, gpl, spl, locks, writerVars,
                   worldVars, envVars>>

\* handlers.DeleteStaticPin: the DELETE of the row, which cascades to the
\* PIN's assignments; nothing is queued
DeleteStaticPin(s) ==
    /\ staticPins[s] # NoStatic
    /\ staticPins' = [staticPins EXCEPT ![s] = NoStatic]
    /\ spl' = [k \in DOMAIN spl |-> IF k[1] = s THEN NoRow ELSE spl[k]]
    /\ UNCHANGED <<calVars, pureVars, reqVars, pinStates, guestPins, gpl, locks, writerVars,
                   worldVars, envVars>>

DisableInit ==
    /\ now = 0
    /\ feed = [e \in Events |-> NoStay]
    /\ guestPins = [e \in Events |-> NoPin]
    /\ gpl = [k \in Events \X Locks |-> NoRow]
    /\ staticPins = [s \in StaticIds |->
                        IF s = "s1"
                        THEN [code |-> "9999", enabled |-> TRUE, always |-> FALSE, slot |-> 2,
                              schedules |-> {StaticPINSchedule(0, Format1504(0),
                                                               Format1504(900))}]
                        ELSE NoStatic]
    /\ spl = [k \in StaticIds \X Locks |->
                 IF k = <<"s1", "L2">> THEN [slot |-> 2, sync |-> "pending", err |-> <<>>]
                 ELSE NoRow]
    /\ locks = Locks
    /\ IdleWriter

DisableNext ==
    \/ Tick
    \/ \E s \in StaticIds : activatePin(s)
    \/ \E s \in StaticIds : deactivatePin(s)
    \/ syncPendingOperations
    \/ \E s \in StaticIds, enabled \in BOOLEAN : UpdateStaticPinEnabled(s, enabled)
    \/ \E s \in StaticIds : DeleteStaticPin(s)

\* the scheduler evaluates every minute, the drain runs every 30 seconds
DisableFairness ==
    /\ \A s \in StaticIds : WF_vars(activatePin(s))
    /\ \A s \in StaticIds : WF_vars(deactivatePin(s))
    /\ WF_vars(syncPendingOperations)

DisableSpec == DisableInit /\ [][DisableNext]_vars /\ DisableFairness

(***************************************************************************)
(* StartupSpec: the start of the static PIN scheduler at one instant. Start *)
(* launches evaluateSchedules in a goroutine; main then calls              *)
(* InitializeStates. The two run side by side, one PIN at a time, on an    *)
(* empty pinStates map; the clock stands still.                            *)
(***************************************************************************)
\* one iteration of the loop of the evaluateSchedules that Start launched
evaluatePin(s) ==
    /\ staticPins[s].enabled
    /\ IF ShouldBeActive(s) /\ ~pinStates[s]
       THEN activatePin(s)
       ELSE ~ShouldBeActive(s) /\ pinStates[s] /\ deactivatePin(s)

\* one iteration of the loop of InitializeStates: setPinState(pin.ID,
\* IsStaticPINActive(pin, now))
InitializeState(s) ==
    /\ staticPins[s].enabled
    /\ pinStates[s] # ShouldBeActive(s)
    /\ pinStates' = [pinStates EXCEPT ![s] = ShouldBeActive(s)]
    /\ UNCHANGED <<calVars, pureVars, reqVars, storeVars, writerVars, worldVars, envVars>>

StartupInit ==
    /\ now \in 0..MaxNow
    /\ EvaluatorStore

StartupNext ==
    \/ \E s \in StaticIds : evaluatePin(s)
    \/ \E s \in StaticIds : InitializeState(s)
    \/ \E t \in Timers : TimerFires(t)
    \/ \E t \in Timers : FlushTake(t)
    \/ \E t \in Timers : FlushExec(t)

StartupSpec == StartupInit /\ [][StartupNext]_vars

(***************************************************************************)
(* GeneratorSpec: GenerateFromEvent applied to events and custom codes     *)
(* drawn from the sets below, by generators made from settings inside and *)
(* outside 4..8.                                                           *)
(***************************************************************************)
\* descriptions: empty, without the phrase, each of the four patterns,
\* three digits only, the phrase in capitals, two patterns at once, five
\* digits
InputDescriptions ==
    { <<>>,
      <<"G", "u", "e", "s", "t", " ", "A", "n", "n">>,
      <<"(", "L", "a", "s", "t", " ", "4", " ", "D", "i", "g", "i", "t", "s", ")", ":", " ", "0", "4", "2", "1">>,
      <<"L", "a", "s", "t", " ", "4", " ", "D", "i", "g", "i", "t", "s", ":", "5", "6", "7", "8">>,
      <<"l", "a", "s", "t", " ", "4", " ", "d", "i", "g", "i", "t", "s", ":", " ", "\t", "0", "0", "4", "2">>,
      <<"(", "l", "a", "s", "t", " ", "4", " ", "d", "i", "g", "i", "t", "s", ")", ":", "9", "9", "9", "9", " ", "x">>,
      <<"L", "a", "s", "t", " ", "4", " ", "D", "i", "g", "i", "t", "s", ":", " ", "1", "2", "3">>,
      <<"L", "A", "S", "T", " ", "4", " ", "D", "I", "G", "I", "T", "S", ":", " ", "1", "2", "3", "4">>,
      <<"l", "a", "s", "t", " ", "4", " ", "d", "i", "g", "i", "t", "s", ":", "1", "1", "1", "1", " ", "L", "a", "s", "t", " ", "4", " ", "D", "i", "g", "i", "t", "s", ":", "2", "2", "2", "2">>,
      <<"L", "a", "s", "t", " ", "4", " ", "D", "i", "g", "i", "t", "s", ":", " ", "1", "2", "3", "4", "5">> }

\* custom codes: none, valid, with a letter, too short, six digits, too long
InputCustomPINs ==
    { <<>>,
      <<"1", "2", "3", "4">>,
      <<"1", "2", "a", "4">>,
      <<"1", "2", "3">>,
      <<"1", "2", "3", "4", "5", "6">>,
      <<"1", "2", "3", "4", "5", "6", "7", "8", "9">> }

InputMinLengths == {3, 4, 5, 7}
InputMaxLengths == {3, 4, 6, 8, 9}

\* values of the first four bytes of the hash
InputNums == {0, 42, 1234567890, 2147483647}

\* month, check-in day, check-out day
InputDates == {<<1, 1, 2>>, <<12, 28, 3>>, <<7, 9, 31>>}

GeneratorInit ==
    /\ now = 0
    /\ feed = [e \in Events |-> NoStay]
    /\ EmptyStore
    /\ pendingOps = NoOps
    /\ batchTimer = 0
    /\ dpc = [d \in Drains |-> "unused"]
    /\ dops = [d \in Drains |-> NoOps]
    /\ dcur = [d \in Drains |-> NoLock]
    /\ dnodes = [d \in Drains |-> {}]
    /\ lockSlots = [l \in Locks |-> [n \in 1..2 |-> ""]]
    /\ wire = [l \in Locks |-> <<>>]
    /\ enq = <<>>
    /\ pinStates = [s \in StaticIds |-> FALSE]
    /\ IdleCalendar
    /\ ret = NoRet
    /\ \E minLength \in InputMinLengths, maxLength \in InputMaxLengths,
          customPIN \in InputCustomPINs, description \in InputDescriptions,
          num \in InputNums, date \in InputDates :
            args = [fn |-> "GenerateFromEvent", minLength |-> minLength,
                    maxLength |-> maxLength, customPIN |-> customPIN,
                    event |-> [description |-> description, num |-> num,
                               month |-> date[1], inDay |-> date[2], outDay |-> date[3]]]

\* pin.NewGenerator(minLength, maxLength).GenerateFromEvent(event, customPIN)
ApplyGenerateFromEvent ==
    /\ ret = NoRet
    /\ LET r == GenerateFromEvent(NewGenerator(args.minLength, args.maxLength),
                                  args.event, args.customPIN)
       IN  ret' = [fn |-> "GenerateFromEvent", code |-> r.code, method |-> r.method]
    /\ UNCHANGED <<args, reqVars, calVars, pinStates, storeVars, writerVars, worldVars, envVars>>

GeneratorNext == ApplyGenerateFromEvent

GeneratorSpec == GeneratorInit /\ [][GeneratorNext]_vars

(***************************************************************************)
(* The lifecycle's claims.                                                 *)
(***************************************************************************)
\* the guest assignments on lock l whose PIN is not expired
LiveGuestRows(l) ==
    {p \in Events : gpl[p, l].sync # "none" /\ guestPins[p].status # "expired"}

\* the static assignments on lock l
StaticRows(l) == {s \in StaticIds : spl[s, l].sync # "none"}

\* C1 (slot occupancy): on every lock, the non-expired guest assignments
\* and the static assignments have pairwise distinct slot numbers, each
\* within 1..total_slots.
C1_SlotOccupancy ==
    \A l \in locks :
        /\ \A p, q \in LiveGuestRows(l) : p # q => gpl[p, l].slot # gpl[q, l].slot
        /\ \A s, t \in StaticRows(l) : s # t => spl[s, l].slot # spl[t, l].slot
        /\ \A p \in LiveGuestRows(l), s \in StaticRows(l) : gpl[p, l].slot # spl[s, l].slot
        /\ \A p \in LiveGuestRows(l) : gpl[p, l].slot \in 1..TotalSlots
        /\ \A s \in StaticRows(l) : spl[s, l].slot \in 1..TotalSlots

\* the clear operations queued by the step for PIN p's assignment on lock l
ClearsQueued(p, l) ==
    {i \in (Len(enq) + 1)..Len(enq') :
        /\ enq'[i].owner = p /\ enq'[i].lock = l
        /\ enq'[i].operation = "clear" /\ enq'[i].slot = gpl[p, l].slot}

\* the clear calls made so far for PIN p on lock l
ClearCalls(p, l) ==
    {i \in DOMAIN wire[l] : /\ wire[l][i].kind = "clear" /\ wire[l][i].role = "primary"
                            /\ enq[wire[l][i].n].owner = p}

\* C2 (expiration sweep): whichever periodic status job moves an active PIN
\* whose valid_until has passed to expired, that step queues exactly one
\* clear for each of the PIN's assignments, and the writer calls clear at
\* most once per assignment.
C2_ExpirationSweep ==
    [][ /\ (expireOldPINs \/ UpdatePINStatuses) =>
              \A p \in Events :
                  (/\ guestPins[p].status = "active"
                   /\ guestPins[p].until <= now
                   /\ guestPins'[p].status = "expired") =>
                      \A l \in Locks :
                          gpl[p, l].sync # "none" => Cardinality(ClearsQueued(p, l)) = 1
        /\ \A p \in Events, l \in Locks : Cardinality(ClearCalls(p, l)') <= 1
      ]_vars

\* PIN p's code was written to its slot on lock l: the successful set calls
SetCalls(p, l) ==
    {i \in DOMAIN wire[l] : /\ wire[l][i].kind = "set" /\ wire[l][i].ok
                            /\ enq[wire[l][i].n].owner = p}

\* a clear of the slot was executed after every write of the PIN's code
ClearedAfterSets(p, l) ==
    \A i \in SetCalls(p, l) :
        \E j \in DOMAIN wire[l] :
            /\ j > i /\ wire[l][j].kind = "clear" /\ wire[l][j].ok
            /\ wire[l][j].slot = wire[l][i].slot

\* a call to a transport has failed
TransportFailed == \E l \in Locks : \E i \in DOMAIN wire[l] : ~wire[l][i].ok

\* C3 (eventual reconciliation of absence): once a PIN is expired and its
\* code was written to a slot of a lock, a clear of that slot is eventually
\* executed after the last write of the code - so no set of the code
\* follows the clear - unless a transport call fails.
C3_ReconciliationOfAbsence ==
    \A p \in Events, l \in Locks :
        (guestPins[p].status = "expired" /\ SetCalls(p, l) # {})
            ~> (ClearedAfterSets(p, l) \/ TransportFailed)

\* the set operations queued by the step for PIN p's assignment on lock l
SetsQueued(p, l) ==
    {i \in (Len(enq) + 1)..Len(enq') :
        /\ enq'[i].owner = p /\ enq'[i].lock = l /\ enq'[i].operation = "set"
        /\ enq'[i].slot = gpl[p, l].slot /\ enq'[i].code = guestPins[p].code}

\* C4 (activation): whichever periodic job moves a pending PIN whose
\* valid_from has come to active, that step queues a set with the PIN's
\* code and slot for each of its assignments.
C4_Activation ==
    [][ (activatePendingPINs \/ UpdatePINStatuses) =>
           \A p \in Events :
               (/\ guestPins[p].status = "pending"
                /\ guestPins[p].from <= now
                /\ guestPins'[p].status = "active") =>
                   \A l \in Locks : gpl[p, l].sync # "none" => SetsQueued(p, l) # {}
      ]_vars

\* C5 (state monotonicity): no step changes a PIN's status from expired to
\* another value, nor from active to pending.
C5_StateMonotonicity ==
    [][ \A p \in Events :
           /\ guestPins[p].status = "expired" => guestPins'[p].status = "expired"
           /\ guestPins[p].status = "active" => guestPins'[p].status # "pending"
      ]_vars

(***************************************************************************)
(* The lock writer's claims (checked under WriterSpec).                    *)
(***************************************************************************)
\* the calls recorded for lock l that are primary calls
PrimaryCalls(l) == {i \in DOMAIN wire[l] : wire[l][i].role = "primary"}

\* no operation on the same lock and slot was queued between m and n
NothingBetween(m, n) ==
    \A k \in (m + 1)..(n - 1) :
        ~(enq[k].lock = enq[m].lock /\ enq[k].slot = enq[m].slot)

\* C6 (writer deduplication): two queue_set calls with the same lock, slot
\* and code that are taken by the same drain, with nothing queued for that
\* slot between them, lead to one write attempt only: no drain makes two
\* primary set calls for such a pair.
C6_WriterDeduplication ==
    \A l \in Locks : \A i, j \in PrimaryCalls(l) :
        LET a == wire[l][i]
            b == wire[l][j]
        IN  ~(/\ i < j
              /\ a.d = b.d
              /\ a.kind = "set" /\ b.kind = "set"
              /\ a.slot = b.slot /\ a.code = b.code
              /\ NothingBetween(a.n, b.n))

\* C7 (set then clear then flush_now): in a drain started by FlushNow, a
\* set whose batch holds a later clear of the same lock and slot is never
\* sent to the lock: no set call of the drain has such a clear waiting in
\* the drain's batch or made after it by the drain.
C7_SetClearFlushNow ==
    \A l \in Locks : \A i \in DOMAIN wire[l] :
        LET c == wire[l][i]
        IN  (c.d \in Flushers /\ c.kind = "set") =>
              /\ ~\E k \in DOMAIN dops[c.d][l] :
                     /\ dops[c.d][l][k].operation = "clear"
                     /\ dops[c.d][l][k].slot = c.slot
              /\ ~\E j \in DOMAIN wire[l] :
                     /\ j > i /\ wire[l][j].d = c.d
                     /\ wire[l][j].kind = "clear" /\ wire[l][j].slot = c.slot

\* C8 (per-slot ordering): the calls made for one lock and slot are made in
\* the order their operations were queued, whichever drains make them.
C8_PerSlotOrdering ==
    \A l \in Locks : \A i, j \in PrimaryCalls(l) :
        (i < j /\ wire[l][i].slot = wire[l][j].slot) => wire[l][i].n < wire[l][j].n

Armed == {t \in Timers : dpc[t] = "armed"}

\* C9 (batch timer discipline): at most one batch timer is armed; an
\* operation queued while a timer is armed arms no other; a timer is armed
\* only by an operation queued into an empty queue; FlushNow leaves no
\* timer armed.
C9_TimerDiscipline ==
    [][ /\ Cardinality(Armed') <= 1
        /\ (Len(enq') > Len(enq) /\ Armed # {}) => Armed' = Armed
        /\ (Armed' \ Armed # {}) => (Len(enq') > Len(enq) /\ pendingOps = NoOps)
        /\ (\E f \in Flushers : dpc[f] = "unused" /\ dpc'[f] = "ready") => Armed' = {}
      ]_vars

\* the static assignments an operation without owner was queued for
StaticRowsOf(op) ==
    {k \in DOMAIN spl : k[2] = op.lock /\ spl[k].sync # "none" /\ spl[k].slot = op.slot}

\* the operation a step of flushBatch executes on lock l, if it executes one
Executes(l) == Len(wire'[l]) > Len(wire[l])

\* C10 (fallback and outcome recording): the fallback is called iff the
\* primary call failed and a fallback exists, and the step that executes an
\* operation sets its owning assignment - the guest row of its owner, or
\* the static row it was queued for - to synced iff the last call made
\* succeeded and otherwise to failed with the error recorded.
C10_FallbackAndOutcome ==
    [][ \A l \in Locks : Executes(l) =>
          LET first == wire'[l][Len(wire[l]) + 1]
              last == wire'[l][Len(wire'[l])]
              op == enq[first.n]
          IN  /\ first.role = "primary"
              /\ (last.role = "fallback") <=> (~first.ok /\ first.via = "zwave_js_ui")
              /\ (op.owner # "" /\ gpl[op.owner, l].sync # "none") =>
                    /\ gpl'[op.owner, l].sync = (IF last.ok THEN "synced" ELSE "failed")
                    /\ (gpl'[op.owner, l].err = <<>>) <=> last.ok
              /\ op.owner = "" =>
                    \A k \in StaticRowsOf(op) :
                        spl'[k].sync = (IF last.ok THEN "synced" ELSE "failed")
      ]_vars

(***************************************************************************)
(* Static PINs and their schedules.                                        *)
(***************************************************************************)
\* the operations a step queues
NewOps == {enq'[i] : i \in (Len(enq) + 1)..Len(enq')}

\* an enabled static PIN with a day/time schedule
Scheduled(s) ==
    staticPins[s].enabled /\ ~staticPins[s].always /\ staticPins[s].schedules # {}

\* C11 (scheduled static PIN residency): whatever queues an operation for
\* an assignment of an enabled scheduled static PIN, a set is queued only
\* when the schedule matches and the PIN was not resident (the schedule
\* starts matching), a clear only when it does not match and the PIN was
\* resident (it stops matching); nothing else, the 30-second drain
\* included, queues an operation for it.
C11_ScheduledResidency ==
    [][ \A op \in NewOps, s \in StaticIds :
          (op.owner = "" /\ Scheduled(s) /\ spl[s, op.lock].sync # "none"
             /\ spl[s, op.lock].slot = op.slot) =>
                IF op.operation = "set"
                THEN ShouldBeActive(s) /\ ~pinStates[s]
                ELSE ~ShouldBeActive(s) /\ pinStates[s]
      ]_vars

\* the minute of the day a zero-padded "HH:MM" names
MinutesOf(hhmm) == (hhmm[1] * 10 + hhmm[2]) * 60 + hhmm[4] * 10 + hhmm[5]

\* a schedule matches a weekday and a minute: the day is the schedule's and
\* the minute is inside its window, which runs overnight when its start is
\* after its end
Matches(schedule, weekday, minute) ==
    LET start == MinutesOf(schedule.start)
        end == MinutesOf(schedule.end)
    IN  /\ schedule.day = weekday
        /\ IF start <= end
           THEN start <= minute /\ minute <= end
           ELSE minute >= start \/ minute <= end

\* C12 (schedule matching): a static PIN is evaluated as resident exactly
\* when it is enabled and either always active or one of its schedules
\* matches the local weekday and time, overnight windows included.
C12_ScheduleMatching ==
    ret # NoRet =>
        (ret.value <=>
            /\ args.pin.enabled
            /\ \/ args.pin.always
               \/ \E schedule \in args.pin.schedules :
                     Matches(schedule, args.weekday, args.minute))

(***************************************************************************)
(* The calendar sync.                                                      *)
(***************************************************************************)
\* C13 (idempotence of sync): after a successful sync, a second run on the
\* same feed and the store the first left creates, updates and removes
\* nothing and leaves every guest PIN and every assignment as it is.
C13_SyncIdempotence ==
    [][ SyncCalendarRun(TRUE) =>
          LET again == SyncOutcome(guestPins', gpl', feed', now')
          IN  /\ again.pins_created = 0
              /\ again.pins_updated = 0
              /\ again.pins_removed = 0
              /\ again.pins = guestPins'
              /\ again.rows = gpl'
      ]_vars

\* a sync that found PINs of an earlier sync in the store and had nothing to
\* do
C13_Witness ==
    /\ result.fetch = "ok"
    /\ calendar.last_sync_at = now
    /\ result.pins_created = 0 /\ result.pins_updated = 0 /\ result.pins_removed = 0
    /\ \E p \in Events : guestPins[p].status \in {"pending", "active"}

\* C14 (dropped events): after a successful sync every guest PIN that was
\* in the store and whose event is not among the feed's events that have
\* not ended is expired, and pins_removed counts the PINs this sync moved
\* to expired.
C14_DroppedEvents ==
    [][ SyncCalendarRun(TRUE) =>
          /\ \A p \in Events :
                (guestPins[p].status # "none" /\ p \notin FilterFutureEvents(feed, now))
                    => guestPins'[p].status = "expired"
          /\ result'.pins_removed =
                Cardinality({p \in Events : guestPins[p].status # "expired"
                                             /\ guestPins'[p].status = "expired"})
      ]_vars

\* a sync that expired the PIN of a dropped event
C14_Witness ==
    /\ result.fetch = "ok"
    /\ result.pins_removed > 0
    /\ \E p \in Events : guestPins[p].status = "expired"
                          /\ p \notin FilterFutureEvents(feed, now)

\* C15 (fetch failure): a sync whose fetch fails returns the error, records
\* it on the calendar with sync_status error, leaves last_sync as it was and
\* touches no guest PIN and no assignment.
C15_FetchFailure ==
    [][ SyncCalendarRun(FALSE) =>
          /\ result'.err # ""
          /\ calendar'.sync_status = "error"
          /\ calendar'.sync_error = result'.err
          /\ calendar'.last_sync_at = calendar.last_sync_at
          /\ guestPins' = guestPins
          /\ gpl' = gpl
      ]_vars

\* a failed sync after a successful one, with PINs in the store
C15_Witness ==
    /\ result.fetch = "error"
    /\ calendar.sync_status = "error"
    /\ calendar.last_sync_at >= 0
    /\ \E p \in Events : guestPins[p].status \in {"pending", "active"}

\* the windows of two PINs overlap
Overlap(a, b) == a.from < b.until /\ a.until > b.from

\* p was persisted before q is: it was in the store, or its event comes
\* first in the feed
PersistedBefore(p, q) ==
    \/ guestPins[p].status # "none"
    \/ \E i, j \in DOMAIN EventOrder : EventOrder[i] = p /\ EventOrder[j] = q /\ i < j

\* C16 (collision flagging): a guest PIN the sync creates with the code of
\* another PIN that is neither expired nor in conflict, was persisted before
\* it and has an overlapping window, is given the status conflict.
C16_CollisionFlagging ==
    [][ SyncCalendarRun(TRUE) =>
          \A q \in Events :
            (/\ guestPins[q].status = "none"
             /\ guestPins'[q].status # "none"
             /\ \E p \in Events \ {q} :
                   /\ PersistedBefore(p, q)
                   /\ guestPins'[p].status \in {"pending", "active"}
                   /\ guestPins'[p].code = guestPins'[q].code
                   /\ Overlap(guestPins'[p], guestPins'[q]))
                => guestPins'[q].status = "conflict"
      ]_vars

(***************************************************************************)
(* The PIN generator.                                                      *)
(***************************************************************************)
\* settings the spec allows: 4 <= min_length <= max_length <= 8
ValidSettings(minLength, maxLength) ==
    4 <= minLength /\ minLength <= maxLength /\ maxLength <= 8

AllDigits(code) == \A i \in 1..Len(code) : code[i] \in Digits

\* the supplied custom code is usable
CustomSucceeds(customPIN, minLength, maxLength) ==
    /\ customPIN # <<>>
    /\ AllDigits(customPIN)
    /\ minLength <= Len(customPIN) /\ Len(customPIN) <= maxLength

\* code is a four-digit group that follows one of the phrases in the
\* description
PhoneMatch(description, code) ==
    \E n \in DOMAIN PhonePatterns, i \in 1..Len(description) :
        /\ MatchAt(description, i, PhonePatterns[n])
        /\ LET j == SkipSpace(description, i + Len(PhonePatterns[n]))
           IN  code = SubSeq(description, j, j + 3)

PhoneSucceeds(description) ==
    \E n \in DOMAIN PhonePatterns, i \in 1..Len(description) :
        MatchAt(description, i, PhonePatterns[n])

\* C17 (derivation chain order): GenerateFromEvent returns the code of the
\* first strategy that succeeds in the order custom (all digits, length
\* within the settings), phone_last4 (a four-digit match in the
\* description), description_random (description not empty), date_based,
\* and the method names that strategy; an invalid custom code falls
\* through.
C17_DerivationChainOrder ==
    (ret # NoRet /\ ret.fn = "GenerateFromEvent"
        /\ ValidSettings(args.minLength, args.maxLength)) =>
      LET g == [minLength |-> args.minLength, maxLength |-> args.maxLength]
          e == args.event
          custom == CustomSucceeds(args.customPIN, args.minLength, args.maxLength)
          phone == PhoneSucceeds(e.description)
      IN  /\ custom => ret.method = "custom" /\ ret.code = args.customPIN
          /\ (~custom /\ phone) =>
                ret.method = "phone_last4" /\ PhoneMatch(e.description, ret.code)
          /\ (~custom /\ ~phone /\ e.description # <<>>) =>
                /\ ret.method = "description_random"
                /\ ret.code = generateFromDescription(g, e.num)
          /\ (~custom /\ ~phone /\ e.description = <<>>) =>
                /\ ret.method = "date_based"
                /\ ret.code = generateFromDates(g, e.month, e.inDay, e.outDay)

\* an invalid custom code fell through to the phone number of the
\* description
C17_Witness ==
    /\ ret # NoRet /\ ret.fn = "GenerateFromEvent"
    /\ ValidSettings(args.minLength, args.maxLength)
    /\ args.customPIN # <<>>
    /\ ret.method = "phone_last4"

\* C18 (PIN format and totality): for settings with 4 <= min_length <=
\* max_length <= 8 every code the chain returns, by any strategy, is made
\* of digits only and its length is between min_length and max_length.
C18_PINFormat ==
    (ret # NoRet /\ ret.fn = "GenerateFromEvent"
        /\ ValidSettings(args.minLength, args.maxLength)) =>
      /\ AllDigits(ret.code)
      /\ args.minLength <= Len(ret.code) /\ Len(ret.code) <= args.maxLength

(***************************************************************************)
(* The guest PIN handlers.                                                 *)
(***************************************************************************)
\* C19 (regeneration eligibility): the regenerate operation changes the
\* code of a guest PIN only if the PIN's regeneration_eligible is set and
\* its valid_from is at least 24 hours after now.
C19_RegenerationEligibility ==
    [][ \A p \in Events :
          RegenerateGuestPin(p) =>
              (guestPins[p].regen /\ Hours(guestPins[p].from) - Hours(now) >= 24)
      ]_vars

(***************************************************************************)
(* The secrecy of the codes.                                               *)
(***************************************************************************)
\* the message has the code among its parts
Contains(msg, code) == \E i \in DOMAIN msg : msg[i] = code

\* C20 (PIN secrecy): for every set operation sent to a lock, failed ones
\* included, neither the error the transport returned nor the error_message
\* stored on an assignment of that lock contains the operation's code.
C20_PINSecrecy ==
    \A l \in Locks : \A i \in DOMAIN wire[l] :
        LET call == wire[l][i]
        IN  call.kind = "set" =>
              /\ ~call.ok => ~Contains(ErrorOf(call), call.code)
              /\ \A p \in Events : ~Contains(gpl[p, l].err, call.code)

(***************************************************************************)
(* The sync scheduler.                                                     *)
(***************************************************************************)
\* C21 (periodic sync liveness): while the scheduler runs and the calendar
\* stays enabled with sync_interval_min = N, never more than N minutes pass
\* without the calendar's sync task firing, counted from Start or from the
\* task's last run.
C21_PeriodicSync ==
    (cron.refresh # NoEntry /\ calendar.enabled) =>
        cron.time - (IF cron.lastSync = NoEntry THEN 0 ELSE cron.lastSync)
            <= calendar.sync_interval_min

(***************************************************************************)
(* Requests side by side.                                                  *)
(***************************************************************************)
\* C22 (event uniqueness): there is never more than one guest PIN for an
\* event, also when two syncs process the same new event side by side; the
\* request whose create failed has left no PIN and no assignment.
C22_EventUniqueness ==
    /\ \A a, b \in tables.guest_pins : a.event_uid = b.event_uid => a.id = b.id
    /\ \A r \in ReqIds :
          (requests[r].op = "processEvent" /\ requests[r].outcome = "error") =>
              /\ ~\E row \in tables.guest_pins : row.id = r
              /\ ~\E row \in tables.guest_pin_locks : row.guest_pin_id = r

\* both requests found no PIN for the event; one created it, the other's
\* create failed
C22_Witness ==
    \E r, s \in ReqIds :
        /\ requests[r].op = "processEvent" /\ requests[r].outcome = "error"
        /\ requests[s].op = "processEvent" /\ requests[s].outcome = "created"
        /\ requests[r].uid = requests[s].uid

\* C23 (static PIN name uniqueness): no two static PINs ever have names
\* that are equal ignoring case, also when two create requests with the
\* same name are processed side by side.
C23_StaticNameUniqueness ==
    \A a, b \in tables.static_pins : Lower(a.name) = Lower(b.name) => a.id = b.id

(***************************************************************************)
(* The drain after a restart.                                              *)
(***************************************************************************)
\* an operation that was queued and is neither in the queue, nor in a
\* flushBatch under way, nor was sent to the lock
Lost(op) ==
    /\ \A i \in DOMAIN pendingOps[op.lock] : pendingOps[op.lock][i].n # op.n
    /\ \A d \in Drains : \A i \in DOMAIN dops[d][op.lock] : dops[d][op.lock][i].n # op.n
    /\ \A i \in DOMAIN wire[op.lock] : wire[op.lock][i].n # op.n

\* the intent of an assignment is missing: no operation of that kind for it
\* is queued, under way or was executed
MissingIntent(p, l, kind) ==
    \A i \in DOMAIN enq :
        (enq[i].owner = p /\ enq[i].lock = l /\ enq[i].operation = kind) => Lost(enq[i])

\* the drain's next run queues an operation of that kind for the assignment
DrainEnqueues(p, l, kind) ==
    LET ops == SyncGuestOps(guestPins, gpl)
    IN  \E i \in DOMAIN ops :
            ops[i].owner = p /\ ops[i].lock = l /\ ops[i].operation = kind

\* C24 (crash recovery by drain): whenever a guest PIN is active and the SET
\* of one of its assignments is missing, or it is expired and the CLEAR is
\* missing, the drain of pending assignments queues that operation.
C24_CrashRecovery ==
    \A p \in Events, l \in Locks :
        gpl[p, l].sync # "none" =>
            /\ (guestPins[p].status = "active" /\ MissingIntent(p, l, "set"))
                   => DrainEnqueues(p, l, "set")
            /\ (guestPins[p].status = "expired" /\ MissingIntent(p, l, "clear"))
                   => DrainEnqueues(p, l, "clear")

\* C25 (no automatic retry of failed rows): an operation the drain queues
\* for a guest PIN is for an assignment that is pending, a set when the PIN
\* is active and a clear when it is expired; an assignment that is failed
\* gets none.
C25_NoRetryOfFailed ==
    [][syncPendingOperations =>
          \A i \in (Len(enq) + 1)..Len(enq') :
              enq'[i].owner # "" =>
                  /\ gpl[enq'[i].owner, enq'[i].lock].sync = "pending"
                  /\ \/ guestPins[enq'[i].owner].status = "active"
                        /\ enq'[i].operation = "set"
                     \/ guestPins[enq'[i].owner].status = "expired"
                        /\ enq'[i].operation = "clear"]_vars

\* the set of one PIN failed and its assignment is failed; after that call
\* an operation was queued for the other PIN and none for the failed one
C25_Witness ==
    \E p, q \in Events, l \in Locks :
        /\ p # q
        /\ gpl[p, l].sync = "failed"
        /\ \E i, j \in DOMAIN enq :
              /\ i < j
              /\ enq[i].owner = p /\ enq[i].lock = l
              /\ \E c \in DOMAIN wire[l] : wire[l][c].n = i /\ ~wire[l][c].ok
              /\ enq[j].owner = q
              /\ \A k \in DOMAIN enq : enq[k].owner = p => k = i

(***************************************************************************)
(* The evaluator of the static PINs' schedules.                            *)
(***************************************************************************)
\* a step queues one operation of a kind for each assignment of a static
\* PIN (a set carries the PIN's code) and nothing else
OnePerAssignment(s, kind) ==
    LET keys == {k \in DOMAIN spl : k[1] = s /\ spl[k].sync # "none"}
    IN  /\ Cardinality(NewOps) = Cardinality(keys)
        /\ \A k \in keys :
              Cardinality({op \in NewOps :
                              /\ op.lock = k[2]
                              /\ op.slot = spl[k].slot
                              /\ op.operation = kind
                              /\ kind = "set" => op.code = staticPins[s].code}) = 1

\* C26 (edge-triggered evaluator): the evaluator activates an enabled static
\* PIN only when it should be on the locks and its state says it is not,
\* and then queues one set per assignment; it deactivates it only when it
\* should not be on the locks and its state says it is, and then queues one
\* clear per assignment; when the two agree it does neither.
C26_EdgeTriggered ==
    [][\A s \in StaticIds :
          /\ activatePin(s) =>
                /\ staticPins[s].enabled /\ ShouldBeActive(s) /\ ~pinStates[s]
                /\ OnePerAssignment(s, "set")
          /\ deactivatePin(s) =>
                /\ staticPins[s].enabled /\ ~ShouldBeActive(s) /\ pinStates[s]
                /\ OnePerAssignment(s, "clear")]_vars

\* both edges were taken: a set, then a clear, were queued for the slot of
\* the static PIN, whose state is inactive again
C26_Witness ==
    \E s \in StaticIds, l \in Locks :
        /\ spl[s, l].sync # "none"
        /\ ~pinStates[s]
        /\ \E i, j \in DOMAIN enq :
              /\ i < j
              /\ enq[i].owner = "" /\ enq[i].lock = l /\ enq[i].operation = "set"
              /\ enq[i].code = staticPins[s].code
              /\ enq[j].owner = "" /\ enq[j].lock = l /\ enq[j].operation = "clear"
              /\ enq[j].slot = spl[s, l].slot

\* the calls made for the operations without owner on a slot of a lock
StaticCalls(l, slot) ==
    SelectSeq(wire[l], LAMBDA c : c.slot = slot /\ enq[c.n].owner = "")

\* C27 (static write outcome): a static assignment is synced only when a
\* call of the writer for its slot succeeded; when the last call for it
\* failed the assignment is failed and the PIN's state was not flipped to
\* active.
C27_StaticWriteOutcome ==
    \A s \in StaticIds, l \in Locks :
        LET calls == StaticCalls(l, spl[s, l].slot)
        IN  spl[s, l].sync # "none" =>
                /\ spl[s, l].sync = "synced" =>
                       \E i \in DOMAIN calls : calls[i].ok
                /\ (calls # <<>> /\ ~calls[Len(calls)].ok /\ calls[Len(calls)].kind = "set") =>
                       /\ spl[s, l].sync = "failed"
                       /\ ~pinStates[s]

\* C28 (startup initialisation): at the instant the scheduler starts no set
\* and no clear is queued for a static PIN, however the evaluation that
\* Start launches and InitializeStates interleave.
C28_QuietStartup ==
    \A i \in DOMAIN enq : enq[i].owner # ""

(***************************************************************************)
(* What a sync writes for one event.                                       *)
(***************************************************************************)
\* C29 (creation on sync): a guest PIN that a sync creates is active when
\* now is at or after its valid_from and before its valid_until, pending
\* otherwise, and has one pending assignment for every lock mapped to the
\* calendar and none for another lock.
C29_CreationOnSync ==
    [][\A e \in Events :
          (guestPins[e].status = "none" /\ guestPins'[e].status # "none") =>
              /\ guestPins'[e].status =
                     IF guestPins'[e].from <= now /\ now < guestPins'[e].until
                     THEN "active" ELSE "pending"
              /\ \A l \in Locks :
                    gpl'[e, l].sync =
                        IF \E i \in DOMAIN CalendarLocks : CalendarLocks[i] = l
                        THEN "pending" ELSE "none"]_vars

\* the event of a PIN is among those a sync processes and its window is not
\* the PIN's
DatesChanged(e) ==
    /\ guestPins[e].status # "none"
    /\ e \in FilterFutureEvents(feed, now)
    /\ \/ guestPins[e].from # applyCheckinTime(EventStart(feed[e]))
       \/ guestPins[e].until # applyCheckoutTime(EventEnd(feed[e]))

\* C30 (date change on sync): a sync that finds a guest PIN whose event
\* dates changed writes the new valid_from and valid_until; the code is
\* derived again when the PIN's method is date_based, and for any other
\* method the code and the method stay as they were.
C30_DateChangeOnSync ==
    [][SyncCalendarRun(TRUE) =>
          \A e \in Events :
              DatesChanged(e) =>
                  /\ guestPins'[e].from = applyCheckinTime(EventStart(feed[e]))
                  /\ guestPins'[e].until = applyCheckoutTime(EventEnd(feed[e]))
                  /\ guestPins'[e].method = guestPins[e].method
                  /\ guestPins'[e].code = IF guestPins[e].method = "date_based"
                                          THEN EventCode(feed[e])
                                          ELSE guestPins[e].code]_vars

\* the last sync updated one PIN and created none; the PIN of the only
\* booking has the booking's window, the method custom and its custom code
C30_Witness ==
    \E e \in Events :
        /\ result.fetch = "ok" /\ result.pins_updated = 1 /\ result.pins_created = 0
        /\ \A o \in Events \ {e} : guestPins[o].status = "none"
        /\ feed[e] # NoStay
        /\ guestPins[e].method = "custom" /\ guestPins[e].code = "4321"
        /\ guestPins[e].from = applyCheckinTime(EventStart(feed[e]))
        /\ guestPins[e].until = applyCheckoutTime(EventEnd(feed[e]))

(***************************************************************************)
(* Syncs of one calendar side by side.                                     *)
(***************************************************************************)
\* the requests that are inside a sync of the calendar
SyncsInFlight ==
    {r \in ReqIds : requests[r].op = "processEvent"
                    /\ requests[r].pc \in {"get", "create", "assign"}}

\* C31 (single sync in flight): at no time are two syncs of the calendar
\* executing, whether started by the cron job, TriggerSync or the handler.
C31_SingleSyncInFlight ==
    Cardinality(SyncsInFlight) <= 1

\* C32 (status not clobbered by sync): the Update of a sync that changes a
\* guest PIN's window leaves the PIN's status as the store holds it at that
\* moment, whatever the sync read earlier.
C32_StatusNotClobbered ==
    [][\A r \in ReqIds :
          ProcessEventUpdate(r) =>
              guestPins'[requests[r].uid].status = guestPins[requests[r].uid].status]_vars

(***************************************************************************)
(* A lock without a free slot.                                             *)
(***************************************************************************)
\* managed_locks.total_slots of a lock that UpdateLock has set to one slot
SmallTotalSlots == 1

\* a slot of a lock holds a guest assignment whose PIN is not expired, or a
\* static assignment
Occupied(l, n) ==
    \/ \E e \in Events :
          gpl[e, l].sync # "none" /\ gpl[e, l].slot = n /\ guestPins[e].status # "expired"
    \/ \E s \in StaticIds : spl[s, l].sync # "none" /\ spl[s, l].slot = n

\* C33 (no free slot): when a sync creates a guest PIN and every slot of a
\* mapped lock with one slot is occupied, the PIN is created and its
\* assignment to that lock is recorded as failed with an error.
C33_NoFreeSlot ==
    [][\A e \in Events, l \in Locks :
          (/\ guestPins[e].status = "none" /\ feed[e] # NoStay
           /\ e \in FilterFutureEvents(feed, now)
           /\ SyncCalendarRun(TRUE)
           /\ \E i \in DOMAIN CalendarLocks : CalendarLocks[i] = l
           /\ \A n \in 1..SmallTotalSlots : Occupied(l, n)) =>
              /\ guestPins'[e].status # "none"
              /\ gpl'[e, l].sync = "failed"
              /\ gpl'[e, l].err # <<>>]_vars

(***************************************************************************)
(* Conflicts of codes.                                                     *)
(***************************************************************************)
\* the windows of two PINs overlap
WindowsOverlap(a, b) == a.from < b.until /\ a.until > b.from

\* a status FindConflicts returns
Eligible(pin) == pin.status \notin {"expired", "conflict"}

\* what FindConflicts returns has the code asked for, a window that overlaps
\* the one asked for and a status that is neither expired nor conflict
OnlyConflicts ==
    \A a \in Events : \A b \in ret.found[a] :
        /\ b # a
        /\ guestPins[b].code = guestPins[a].code
        /\ WindowsOverlap(guestPins[a], guestPins[b])
        /\ Eligible(guestPins[b])

Candidate(i) ==
    Text(SprintfZero(Len(args.originalPIN),
                     (ParseDigits(args.originalPIN, 0) + i) % pow10(Len(args.originalPIN))))

\* a stored PIN that can be returned has the candidate's code and a window
\* that overlaps the call's
InConflict(i) ==
    \E e \in Events :
        /\ guestPins[e].code = Candidate(i)
        /\ Eligible(guestPins[e])
        /\ guestPins[e].from < args.validUntil /\ guestPins[e].until > args.validFrom

Attempts == IF args.maxAttempts <= 0 THEN 10 ELSE args.maxAttempts

\* the lookup that fails comes before any candidate without conflict
LookupFailsFirst ==
    /\ args.failAt \in 1..Attempts
    /\ \A i \in 1..(args.failAt - 1) : InConflict(i)

NoSchedulerCall == \A r \in ReqIds : requests[r] = NoRequest

\* the cron has at most one entry that syncs the calendar, the one of the map
OneJob == cron.entries <= 1 /\ (cron.job = NoEntry <=> cron.entries = 0)

\* a calendar that is disabled or deleted has no job once the calls made
\* for it and the refresh have completed
NoJobWhenOff == (NoSchedulerCall /\ ~calendar.enabled) => cron.job = NoEntry

\* when a refresh completes, the calendar has a job exactly when the refresh
\* read it as enabled
RefreshedJobs ==
    [][\A r \in ReqIds :
          RefreshRemove(r) => ((cron'.job # NoEntry) <=> requests[r].cal.enabled)]_vars

\* C36 (scheduler job map): under any interleaving of ScheduleCalendar,
\* UnscheduleCalendar and refreshSchedules the scheduler holds at most one
\* cron job per calendar; a disabled or deleted calendar has no job once
\* its unschedule call or the refresh has completed; after a refresh the
\* calendars with a job are the enabled calendars that refresh read.
C36_JobMap == []OneJob /\ []NoJobWhenOff /\ RefreshedJobs

(***************************************************************************)
(* The replacement of a calendar's lock mappings.                          *)
(***************************************************************************)
\* while a replacement is under way the rows are the previous ones
NothingPartial ==
    \A r \in ReqIds :
        requests[r].op = "UpdateCalendarLocks" =>
            tables.calendar_lock_mappings = requests[r].previous

\* a sync that reads the rows while a replacement is under way reads the
\* previous ones
SyncReadsWhole ==
    [][\A r \in ReqIds :
          (GetLockIDs /\ requests[r].op = "UpdateCalendarLocks") =>
              ret'.lockIDs = requests[r].previous]_vars

\* a replacement with a failed insert ends with the previous rows, any
\* other with the requested ones
AllOrNothing ==
    [][\A r \in ReqIds :
          UpdateCalendarLocksRespond(r) =>
              tables'.calendar_lock_mappings =
                  IF requests[r].failed THEN requests[r].previous
                  ELSE {requests[r].requested[i] : i \in DOMAIN requests[r].requested}]_vars

\* C37 (atomic replacement of lock mappings): replacing the calendar's
\* mappings is all-or-nothing: when an insert fails the previous mappings
\* are left as they were, and no partly replaced set is visible to a sync
\* that runs meanwhile.
C37_AtomicReplacement == []NothingPartial /\ SyncReadsWhole /\ AllOrNothing

(***************************************************************************)
(* The pin.status_changed events.                                          *)
(***************************************************************************)
\* BroadcastPINStatusChanged as the loops of the StatusScheduler call it:
\* one event per PIN of the list, with the status the list read
StatusChangedEvents(pins, ids, newStatus) ==
    [i \in DOMAIN ids |-> [pin_id |-> ids[i], pin_type |-> "guest",
                           old_status |-> pins[ids[i]].status, new_status |-> newStatus]]

\* what a run of StatusScheduler.activatePendingPINs broadcasts
activatePendingPINsEvents ==
    StatusChangedEvents(guestPins, ListPendingActivation(guestPins, now), "active")

\* what a run of StatusScheduler.expireOldPINs broadcasts
expireOldPINsEvents ==
    StatusChangedEvents(guestPins, ListExpired(guestPins, now), "expired")

\* SyncService.UpdatePINStatuses and SyncService.markExpiredPINs call
\* UpdateStatus and no broadcaster
SyncServiceEvents == <<>>

\* every PIN whose status the step changes has exactly one event in the
\* list, with its old and its new status
EveryChangeIn(events) ==
    \A p \in Events :
        (guestPins[p].status # "none" /\ guestPins'[p].status # guestPins[p].status) =>
            Cardinality({i \in DOMAIN events :
                            /\ events[i].pin_id = p
                            /\ events[i].old_status = guestPins[p].status
                            /\ events[i].new_status = guestPins'[p].status}) = 1

\* C38 (lifecycle events): every change of a guest PIN's status - by the
\* status scheduler, by the sync's status update or by a sync from whose
\* feed the event was dropped - comes with exactly one pin.status_changed
\* event carrying the PIN's id, its old and its new status.
C38_LifecycleEvents ==
    [][/\ activatePendingPINs => EveryChangeIn(activatePendingPINsEvents)
       /\ expireOldPINs => EveryChangeIn(expireOldPINsEvents)
       /\ UpdatePINStatuses => EveryChangeIn(SyncServiceEvents)
       /\ SyncCalendarPINs => EveryChangeIn(SyncServiceEvents)]_vars

\* the part of C38 that is about the status scheduler
C38_StatusSchedulerEvents ==
    [][/\ activatePendingPINs => EveryChangeIn(activatePendingPINsEvents)
       /\ expireOldPINs => EveryChangeIn(expireOldPINsEvents)]_vars

(***************************************************************************)
(* No operation is stranded in the queue.                                  *)
(***************************************************************************)
\* the operation queued as the n-th waits in the queue
Queued(n) == \E l \in Locks : \E i \in DOMAIN pendingOps[l] : pendingOps[l][i].n = n

\* the drains that hold the n-th operation in the batch they took
Holding(n) == {d \in Drains : \E l \in Locks : \E i \in DOMAIN dops[d][l] : dops[d][l][i].n = n}

\* the primary calls made for the n-th operation
CallsFor(n) ==
    UNION {{<<l, i>> : i \in {j \in PrimaryCalls(l) : wire[l][j].n = n}} : l \in Locks}

\* a timer is armed, or a flushBatch has been started and has not taken the
\* queue yet
DrainToCome == \E d \in Drains : dpc[d] \in {"armed", "ready"}

\* every operation is in one place: in the queue, in the batch of one
\* drain, or executed once
InOnePlace ==
    \A n \in DOMAIN enq :
        Cardinality(Holding(n)) + Cardinality(CallsFor(n)) + (IF Queued(n) THEN 1 ELSE 0) = 1

Executed(n) == n \in DOMAIN enq /\ CallsFor(n) # {}

StaticResident(l, n) ==
    \E i \in DOMAIN enq :
        /\ enq[i].owner = "" /\ enq[i].operation = "set"
        /\ enq[i].lock = l /\ enq[i].slot = n
        /\ \A j \in DOMAIN enq :
              (j > i /\ enq[j].lock = l /\ enq[j].slot = n) => enq[j].operation # "clear"

NoStaticEnabled == \A s \in StaticIds : ~staticPins[s].enabled

\* C40 (disabling clears the lock): when the static PIN whose code was
\* queued for a slot is disabled or deleted, a CLEAR is eventually queued
\* for that lock and slot, unless the PIN is enabled again first.
C40_DisablingClears ==
    \A l \in Locks, n \in 1..2 :
        (StaticResident(l, n) /\ NoStaticEnabled /\ Room(1))
            ~> (~StaticResident(l, n) \/ ~NoStaticEnabled)

====
